---- MODULE Spec2Model ----
(***************************************************************************)
(* Face-Recognition service: the concurrency governor (the two asyncio     *)
(* semaphores of face_service.py), the quality-gate pipeline               *)
(* (FaceService.detect_and_embed_face), the request handlers               *)
(* (recognize_face, create_face, delete_face, the batch handlers), the     *)
(* identity resolver and the store API (qdrant_database_FE/app.py) and the *)
(* checks of legacy.py.                                                    *)
(*                                                                         *)
(* The specifications of the module:                                       *)
(*   Spec / FairSpec         requests followed one by one through every    *)
(*                           await point of their handler;                 *)
(*   SpecGov / FairSpecGov   the same handlers with requests counted per   *)
(*                           await point, for more requests than a gate    *)
(*                           has slots;                                    *)
(*   SpecResolver            search_point applied to a ranked result of    *)
(*                           the vector store;                             *)
(*   SpecStore               the handlers against the points of the store; *)
(*   SpecSelect              detect_face and the selection of a face;      *)
(*   SpecLoop                the thread each pipeline step runs on;        *)
(*   SpecRace                concurrent enrollments;                       *)
(*   SpecBatch               the batch handlers;                           *)
(*   SpecEnsure              concurrent first uses of a store;             *)
(*   SpecLandmarks           check_eyes_open and is_full_face.             *)
(* Scores are in hundredths (0.54 is 54).                                  *)
(***************************************************************************)
EXTENDS Integers, Sequences, FiniteSets, TLC

VARIABLES
    PROCESSING_SEMAPHORE,  \* free slots of the processing gate
    HTTP_SEMAPHORE,        \* free slots of the network gate
    req,         \* Spec: the request data of each request (op, img_base64, role, is_update)
    pc,          \* Spec: the await point each request is suspended at
    full,        \* Spec: mess_full_face, once full_face_task was awaited
    faces,       \* Spec: len(distances) once detect_face returned, -1 before
    det,         \* Spec: check_emb, what detect_and_embed_face returned first
    message,     \* Spec: the response detect_and_embed_face returned with False
    face_id,     \* Spec: the id extract_face_info took from the search result
    resp,        \* Spec: the response the handler returned
    checks,      \* Spec: what the checks of detect_and_embed_face have come to
    at,          \* SpecGov: how many requests are at each await point
    result,      \* search_point: the ranked hits client.search returned
    response,    \* search_point: the JSON body it answers with
    collection,  \* SpecStore: the points the vector store holds
    served,      \* SpecStore: the request served last and its response
    face_detected,  \* SpecSelect: what DeepFace.extract_faces reported for the capture
    selection,   \* SpecSelect: the face the selection stage picked and its verdict
    stage,       \* SpecLoop: where each request stands in detect_and_embed_face
    loop_thread, \* SpecLoop: the request whose code the event loop thread is running, 0 if none
    enroll,      \* SpecRace: each concurrent create_face: its await point, face, id and response
    batch,       \* SpecBatch: the batch request served: its items, what sem is bound to, the response
    collections, \* SpecEnsure: the names of the collections Qdrant holds
    ensure,      \* SpecEnsure: each request's run of ensure_collections_exist and its answer
    mediapipe,   \* SpecLandmarks: what FaceMesh and FaceDetection report for the capture
    verdicts     \* SpecLandmarks: what check_eyes_open and is_full_face returned, "-" before

semVars == <<PROCESSING_SEMAPHORE, HTTP_SEMAPHORE>>

reqVars == <<req, pc, full, faces, det, message, face_id, resp, checks>>

govVars == <<at>>

resolverVars == <<result, response>>

storeVars == <<collection, served>>

selectVars == <<face_detected, selection>>

loopVars == <<stage, loop_thread>>

raceVars == <<enroll>>

batchVars == <<batch>>

ensureVars == <<collections, ensure>>

landmarkVars == <<mediapipe, verdicts>>

vars ==
    <<PROCESSING_SEMAPHORE, HTTP_SEMAPHORE, req, pc, full, faces, det, message, face_id,
      resp, checks, at, result, response, collection, served,
      face_detected, selection,
      stage, loop_thread,
      enroll,
      batch,
      collections, ensure,
      mediapipe, verdicts>>

\* SpecGov and SpecResolver follow no single request
NoRequests ==
    /\ req = <<>> /\ pc = <<>> /\ full = <<>> /\ faces = <<>>
    /\ det = <<>> /\ message = <<>> /\ face_id = <<>> /\ resp = <<>>
    /\ checks = <<>>

\* SpecStore: no request served yet
NoCall ==
    [op |-> "-", id |-> "-", store_id |-> "-", role |-> "-", face |-> "-", len |-> 0,
     is_update |-> FALSE,
     search |-> "-", insert |-> "-", delete |-> "-", found |-> "-",
     resp |-> [code |-> 0, status |-> 0, id |-> "-", message |-> "-"]]

\* the specifications that follow no store start from an empty one
NoStore == collection = {} /\ served = NoCall

\* SpecSelect: the selection stage has not run on the capture
NoSelection ==
    [done |-> FALSE, boxes |-> <<>>, scores |-> <<>>, distances |-> <<>>,
     is_checkin |-> FALSE, idx_large |-> 0, distance |-> -1, verdict |-> "-"]

NoSelect == face_detected = <<>> /\ selection = NoSelection

\* SpecBatch: no batch request
NoBatch == batch = <<>>

\* SpecRace: no concurrent enrollment
NoRace == enroll = <<>>

\* SpecEnsure: no first use of a store
NoEnsure == collections = {} /\ ensure = <<>>

\* SpecLandmarks: no capture looked at
NoLandmarks == mediapipe = <<>> /\ verdicts = <<>>

\* SpecLoop: no request followed through the event loop
NoLoop == stage = <<>> /\ loop_thread = 0

(***************************************************************************)
(* Concurrency governor: face_service.py, the two module-level semaphores  *)
(***************************************************************************)

\* asyncio.Semaphore(10), both gates
ProcessingCapacity == 10

HttpCapacity == 10

\* requests that may be sent in SpecGov
NumClients == 11

\* variant: acquire also goes through at value 0
SemFreeMut(v) == v >= 0

\* Semaphore.acquire goes through only while the value is positive
SemFree(v) == v > 0

\* Semaphore.acquire, once through: value -= 1
Acquired(v) == v - 1

\* variant: a release at an exhausted gate is lost
ReleasedMut(v) == IF v = 0 THEN v ELSE v + 1

\* Semaphore.release, at the exit of `async with`: value += 1
Released(v) == v + 1

\* variant: a fault leaves the body without releasing
aexitMut(kind, v) == IF kind = "fault" THEN v ELSE Released(v)

\* variant: the slot is kept when the pipeline hands an embedding back, as
\* if the search were made inside the gate
aexitKept(kind, v) == IF kind = "success" THEN v ELSE Released(v)

\* `async with` leaves through __aexit__, which releases whatever way the
\* body was left: kind is "success", "rejection" or "fault"
aexit(kind, v) == Released(v)

\* The await points of the handlers at which a request can be suspended.
GovLocs ==
    {"idle", "acquire_processing", "pipeline", "acquire_http",
     "search_point", "insert_point", "delete_point", "done"}

\* one request moves from await point a to await point b
Move(a, b) == at' = [at EXCEPT ![a] = @ - 1, ![b] = @ + 1]

InitGov ==
    /\ PROCESSING_SEMAPHORE = ProcessingCapacity
    /\ HTTP_SEMAPHORE = HttpCapacity
    /\ at = [l \in GovLocs |-> IF l = "idle" THEN NumClients ELSE 0]
    /\ NoRequests
    /\ NoStore
    /\ NoLandmarks
    /\ NoEnsure
    /\ NoBatch
    /\ NoRace
    /\ NoLoop
    /\ NoSelect
    /\ result = <<>>
    /\ response = [message |-> "none", data |-> <<>>]

\* recognize_face / create_face up to the gather: detect_and_embed_face is
\* started and suspends at `async with PROCESSING_SEMAPHORE`; a request that
\* fails check_condition or has an invalid role is answered at once.
GovRequest ==
    /\ at["idle"] > 0
    /\ \E to \in {"acquire_processing", "done"} : Move("idle", to)
    /\ UNCHANGED <<semVars, reqVars, resolverVars, storeVars, selectVars, loopVars, raceVars, batchVars, ensureVars, landmarkVars>>

\* detect_and_embed_face: the processing gate lets the request in
GovEnterPipeline ==
    /\ at["acquire_processing"] > 0
    /\ SemFree(PROCESSING_SEMAPHORE)
    /\ PROCESSING_SEMAPHORE' = Acquired(PROCESSING_SEMAPHORE)
    /\ Move("acquire_processing", "pipeline")
    /\ UNCHANGED <<HTTP_SEMAPHORE, reqVars, resolverVars, storeVars, selectVars, loopVars, raceVars, batchVars, ensureVars, landmarkVars>>

\* detect_and_embed_face returns (verdict, rejection or fault) and the
\* handler goes on: answers (rejection, fault, collection error), calls
\* search_face (recognize_face; create_face without is_update) or calls
\* insert_point directly (create_face with is_update); only with an embedding
\* handed back ("success") does the handler go on to the store
GovLeavePipeline ==
    /\ at["pipeline"] > 0
    /\ \E to \in {"done", "acquire_http", "insert_point"},
          kind \in {"success", "rejection", "fault"} :
          /\ to # "done" => kind = "success"
          /\ PROCESSING_SEMAPHORE' = aexit(kind, PROCESSING_SEMAPHORE)
          /\ Move("pipeline", to)
    /\ UNCHANGED <<HTTP_SEMAPHORE, reqVars, resolverVars, storeVars, selectVars, loopVars, raceVars, batchVars, ensureVars, landmarkVars>>

\* search_face: the network gate lets the request in; search_point is sent
GovEnterSearch ==
    /\ at["acquire_http"] > 0
    /\ SemFree(HTTP_SEMAPHORE)
    /\ HTTP_SEMAPHORE' = Acquired(HTTP_SEMAPHORE)
    /\ Move("acquire_http", "search_point")
    /\ UNCHANGED <<PROCESSING_SEMAPHORE, reqVars, resolverVars, storeVars, selectVars, loopVars, raceVars, batchVars, ensureVars, landmarkVars>>

\* search_face returns (result, error or timeout): recognize_face answers,
\* create_face answers 409 or goes on to insert_point
GovLeaveSearch ==
    /\ at["search_point"] > 0
    /\ HTTP_SEMAPHORE' = Released(HTTP_SEMAPHORE)
    /\ \E to \in {"done", "insert_point"} : Move("search_point", to)
    /\ UNCHANGED <<PROCESSING_SEMAPHORE, reqVars, resolverVars, storeVars, selectVars, loopVars, raceVars, batchVars, ensureVars, landmarkVars>>

\* create_face: database_client.insert_point returns
GovInsertReturn ==
    /\ at["insert_point"] > 0
    /\ Move("insert_point", "done")
    /\ UNCHANGED <<semVars, reqVars, resolverVars, storeVars, selectVars, loopVars, raceVars, batchVars, ensureVars, landmarkVars>>

\* delete_face: database_client.delete_point is sent
GovDelete ==
    /\ at["idle"] > 0
    /\ Move("idle", "delete_point")
    /\ UNCHANGED <<semVars, reqVars, resolverVars, storeVars, selectVars, loopVars, raceVars, batchVars, ensureVars, landmarkVars>>

\* delete_face: database_client.delete_point returns
GovDeleteReturn ==
    /\ at["delete_point"] > 0
    /\ Move("delete_point", "done")
    /\ UNCHANGED <<semVars, reqVars, resolverVars, storeVars, selectVars, loopVars, raceVars, batchVars, ensureVars, landmarkVars>>

NextGov ==
    \/ GovRequest
    \/ GovEnterPipeline
    \/ GovLeavePipeline
    \/ GovEnterSearch
    \/ GovLeaveSearch
    \/ GovInsertReturn
    \/ GovDelete
    \/ GovDeleteReturn

SpecGov == InitGov /\ [][NextGov]_vars

\* Every call that was started returns or fails (the store calls carry a
\* 30 s timeout), and a free slot is handed to a waiting request.
FairSpecGov ==
    /\ SpecGov
    /\ WF_vars(GovEnterPipeline)
    /\ WF_vars(GovLeavePipeline)
    /\ WF_vars(GovEnterSearch)
    /\ WF_vars(GovLeaveSearch)
    /\ WF_vars(GovInsertReturn)
    /\ WF_vars(GovDeleteReturn)

(***************************************************************************)
(* Requests: face_service.py, recognize_face, create_face, delete_face and *)
(* detect_and_embed_face; one action per await point of a handler          *)
(***************************************************************************)

\* requests that may be sent in Spec
NumReq == 1

Reqs == 1..NumReq

\* faces the provider may report for one capture
MaxFaces == 1

CONF_THRESHOLD == 80

TooCloseBelow == 20

TooFarAbove == 70

\* a field a JSON body or a request does not carry
NoField == "-"

\* data.img_base64: missing (None), empty, not decodable to an image, an image
Imgs == {"None", "", "garbage", "image"}

Roles == {"1", "0", "x"}

StoreIds == {"", "s1"}

\* data.id (data.name goes with it): missing (None) or given
SubjectIds == {"None", "X"}

\* payload ids a search may come back with
StoredIds == {"X", "Y"}

Dists == {19, 20, 70, 71}

\* what DeepFace.extract_faces reports per face: confidence, is_real and
\* the facial area, of which only the distance it yields is kept. A face
\* detect_face stops at (low confidence, not real) comes at one distance:
\* its distance is never computed.
Candidates ==
    [score : {80}, is_real : {TRUE}, dist : Dists]
        \cup [score : {79, 80}, is_real : BOOLEAN, dist : {20}]

FaceAnswers == UNION {[1..n -> Candidates] : n \in 0..MaxFaces}

Data(op, img, role, store, id, upd) ==
    [op |-> op, img_base64 |-> img, role |-> role, store_id |-> store, id |-> id,
     is_update |-> upd]

NoData == Data(NoField, NoField, NoField, NoField, NoField, FALSE)

\* JSONResponse(status_code=code, content={'status': status, 'id': id, 'message': msg})
Resp(code, status, id, msg) == [code |-> code, status |-> status, id |-> id, message |-> msg]

NoResponse == Resp(0, 0, NoField, NoField)

\* legacy.py check_condition; len(None) raises TypeError
check_condition(data, is_checkin) ==
    IF ~is_checkin /\ data.id \in {"None", ""}
    THEN [raised |-> FALSE, ok |-> FALSE, message |-> "id and name are required"]
    ELSE IF data.img_base64 = "None"
    THEN [raised |-> TRUE, ok |-> FALSE, message |-> "TypeError"]
    ELSE IF data.img_base64 = ""
    THEN [raised |-> FALSE, ok |-> FALSE, message |-> "invalid"]
    ELSE IF data.role # "1" /\ data.role # "0"
    THEN [raised |-> FALSE, ok |-> FALSE, message |-> "invalid"]
    ELSE IF data.store_id = ""
    THEN [raised |-> FALSE, ok |-> FALSE, message |-> "store_id is required"]
    ELSE [raised |-> FALSE, ok |-> TRUE, message |-> "Success"]

\* variant: the role alone decides, for an enrollment too
is_checkinMut(r) == req[r].role = "1"

\* recognize_face: is_checkin = True for role '1', False for role '0';
\* create_face always passes is_checkin=False
is_checkin(r) == req[r].op = "recognize" /\ req[r].role = "1"

\* variant: the liveness judgment of a face is not looked at
UsableMut(c) == ~(c.score < CONF_THRESHOLD)

\* legacy.py detect_face: the loop breaks at the first face below
\* CONF_THRESHOLD or not real
Usable(c) == ~(c.score < CONF_THRESHOLD \/ ~c.is_real)

CutOff(fd) ==
    IF \A k \in DOMAIN fd : Usable(fd[k]) THEN Len(fd) + 1
    ELSE CHOOSE k \in DOMAIN fd : ~Usable(fd[k]) /\ \A j \in 1..(k - 1) : Usable(fd[j])

\* legacy.py detect_face: the distances it returns (boxes and scores go with them)
detect_face(fd) == [k \in 1..(CutOff(fd) - 1) |-> fd[k].dist]

\* legacy.py detect_face: the scores it returns
detect_face_scores(fd) == [k \in 1..(CutOff(fd) - 1) |-> fd[k].score]

\* legacy.py detect_face: the boxes it returns; the facial_area of a face
\* stands by the place of the face in what the provider reported
detect_face_boxes(fd) == [k \in 1..(CutOff(fd) - 1) |-> k]

\* variant: the last of the nearest faces
argminMut(d) ==
    CHOOSE k \in DOMAIN d :
        /\ \A j \in DOMAIN d : d[k] <= d[j]
        /\ \A j \in (k + 1)..Len(d) : d[j] > d[k]

\* np.argmin(distances): the first minimum
argmin(d) ==
    CHOOSE k \in DOMAIN d :
        /\ \A j \in DOMAIN d : d[k] <= d[j]
        /\ \A j \in 1..(k - 1) : d[j] > d[k]

\* variant: the comparisons take the bounds in
distance_checkMut(distance) ==
    IF distance <= TooCloseBelow THEN "Face is too close! Please move back"
    ELSE IF distance >= TooFarAbove THEN "Face is too far! Please move forward"
    ELSE "pass"

\* `if distance < 20: ... elif distance > 70: ...`; "pass" when neither returns
distance_check(distance) ==
    IF distance < TooCloseBelow THEN "Face is too close! Please move back"
    ELSE IF distance > TooFarAbove THEN "Face is too far! Please move forward"
    ELSE "pass"

\* variant: after a fault the caller is never resumed
ReturnPointMut(kind) == IF kind = "fault" THEN "suspended" ELSE "gather"

\* where the caller resumes once detect_and_embed_face has returned: the
\* asyncio.gather of the handler
ReturnPoint(kind) == "gather"

\* variant: the embedding follows the detection in either mode
NextStageMut(done, checkin) ==
    CASE done = "decode" -> "await_face_direction"
      [] done = "await_face_direction" -> "await_eyes_open"
      [] done = "detect_face" -> "await_emb"
      [] done = "await_full_face" -> "await_blur_face"
      [] done = "await_blur_face" -> "await_emb"

\* the await that follows a stage that was passed: after decoding (with
\* is_checkin) face_direction_task, then eyes_open_task; after detection,
\* distance check and crop full_face_task with is_checkin and emb_task
\* without; after full_face_task blur_face_task; then gamma and emb_task
NextStage(done, checkin) ==
    CASE done = "decode" -> "await_face_direction"
      [] done = "await_face_direction" -> "await_eyes_open"
      [] done = "detect_face" -> IF checkin THEN "await_full_face" ELSE "await_emb"
      [] done = "await_full_face" -> "await_blur_face"
      [] done = "await_blur_face" -> "await_emb"

\* the await points at which a request holds a slot of the processing gate
PipelineLocs ==
    {"await_face_direction", "await_eyes_open", "await_full_face", "await_blur_face",
     "await_emb"}

FaceDirectionMessages ==
    {"Face not detected! Please try again", "Face is looking left! Please look straight",
     "Face is looking right! Please look straight"}

FullFaceMessages ==
    {"Your mouth is not detected! Please show your face",
     "Your left eye is not detected! Please show your face",
     "Your right eye is not detected! Please show your face",
     "Your noise is not detected! Please show your face", "Face is not detected"}

\* the locals of detect_and_embed_face that hold the outcome of a check:
\* "True", "False", "raise" for a task that raised, "-" while there is none;
\* confidence and spoofing are what detect_face read from the first face
\* DeepFace.extract_faces reported (-1 and "-" when it reported none)
NoChecks ==
    [check_flr |-> "-", check_eyes |-> "-", check_full_face |-> "-", check_face_blur |-> "-",
     is_real |-> "-", confidence |-> -1, spoofing |-> "-"]

\* what a task handed to the pool comes to
TaskResults == {"True", "False", "raise"}

ReqIdle ==
    /\ req = [r \in Reqs |-> NoData]
    /\ pc = [r \in Reqs |-> "idle"]
    /\ full = [r \in Reqs |-> NoField]
    /\ faces = [r \in Reqs |-> -1]
    /\ det = [r \in Reqs |-> NoField]
    /\ message = [r \in Reqs |-> NoResponse]
    /\ face_id = [r \in Reqs |-> NoField]
    /\ resp = [r \in Reqs |-> NoResponse]
    /\ checks = [r \in Reqs |-> NoChecks]

Init ==
    /\ PROCESSING_SEMAPHORE = ProcessingCapacity
    /\ HTTP_SEMAPHORE = HttpCapacity
    /\ ReqIdle
    /\ NoStore
    /\ NoLandmarks
    /\ NoEnsure
    /\ NoBatch
    /\ NoRace
    /\ NoLoop
    /\ NoSelect
    /\ at = [l \in GovLocs |-> 0]
    /\ result = <<>>
    /\ response = [message |-> "none", data |-> <<>>]

\* requests are numbered in the order they arrive
Arrives(r) == pc[r] = "idle" /\ \A q \in 1..(r - 1) : pc[q] # "idle"

\* the handler returns x
Answer(r, x) ==
    /\ resp' = [resp EXCEPT ![r] = x]
    /\ pc' = [pc EXCEPT ![r] = "done"]
    /\ det' = [det EXCEPT ![r] = NoField]
    /\ message' = [message EXCEPT ![r] = NoResponse]
    /\ face_id' = [face_id EXCEPT ![r] = NoField]

\* the handler goes on to its next await point
Goto(r, loc) ==
    /\ pc' = [pc EXCEPT ![r] = loc]
    /\ UNCHANGED <<resp, det, message, face_id>>

others ==
    <<at, result, response, collection, served, face_detected, selection, stage, loop_thread, enroll, batch, collections, ensure,
      mediapipe, verdicts>>

\* detect_and_embed_face returns (check_emb, msg) and leaves the gate; v is
\* the value of the processing gate while the request holds its slot
Exit(r, kind, check_emb, msg, v) ==
    /\ PROCESSING_SEMAPHORE' = aexit(kind, v)
    /\ pc' = [pc EXCEPT ![r] = ReturnPoint(kind)]
    /\ det' = [det EXCEPT ![r] = IF check_emb THEN "True" ELSE "False"]
    /\ message' = [message EXCEPT ![r] = msg]
    /\ full' = [full EXCEPT ![r] = NoField]
    /\ UNCHANGED <<face_id, resp>>

\* detect_and_embed_face suspends at its next await, still holding its slot
Continue(r, loc, v) ==
    /\ PROCESSING_SEMAPHORE' = v
    /\ pc' = [pc EXCEPT ![r] = loc]
    /\ full' = [full EXCEPT ![r] = NoField]
    /\ UNCHANGED <<det, message, face_id, resp>>

\* the except clause of the first try block (lines 133-143)
ErrorDetecting == Resp(500, 2, NoField, "Error when detecting face! Please try again")

\* the except clause of the second try block (lines 261-273)
ErrorProcessing == Resp(500, 2, NoField, "Error when processing face! Please try again")

Rejected400(msg) == Resp(400, 2, NoField, msg)

\* detect_and_embed_face from `if is_detect_face` to the next await: face
\* detection, selection of the nearest face, distance check and crop. No
\* await lies between, so the stage is part of the step that reaches it.
\*  - detect_face raises: with is_checkin a 500 is returned; without it
\*    `return True, (None, img_decode)` reads the img_decode deleted two
\*    lines before, and the UnboundLocalError lands in the except clause of
\*    lines 133-143: ErrorDetecting both ways;
\*  - np.argmin of an empty distances raises ValueError, caught by the
\*    except clause of lines 261-273.
DetectStage(r, v) ==
    \/ /\ Exit(r, "fault", FALSE, ErrorDetecting, v)
       /\ UNCHANGED <<faces, checks>>
    \/ /\ req[r].img_base64 = "image"
       /\ \E fd \in FaceAnswers :
            LET distances == detect_face(fd)
                distance == distances[argmin(distances)]
            IN  /\ faces' = [faces EXCEPT ![r] = Len(distances)]
                /\ checks' = IF fd = <<>> THEN checks
                              ELSE [checks EXCEPT
                                      ![r].confidence = fd[1].score,
                                      ![r].spoofing =
                                          IF fd[1].is_real THEN "True" ELSE "False"]
                /\ IF distances = <<>>
                   THEN Exit(r, "fault", FALSE, ErrorProcessing, v)
                   ELSE IF is_checkin(r) /\ distance_check(distance) # "pass"
                   THEN Exit(r, "rejection", FALSE,
                             Rejected400(distance_check(distance)), v)
                   ELSE Continue(r, NextStage("detect_face", is_checkin(r)), v)

\* The requests sent: every field valid, or one field that check_condition
\* turns down (img_base64 missing or empty, role neither '1' nor '0',
\* store_id empty, id missing) among valid ones.
Invalid(d) ==
    (IF d.img_base64 \in {"None", ""} THEN 1 ELSE 0) + (IF d.role = "x" THEN 1 ELSE 0)
        + (IF d.store_id = "" THEN 1 ELSE 0) + (IF d.id = "None" THEN 1 ELSE 0)

RecognizeRequests ==
    {d \in {Data("recognize", img, role, store, NoField, FALSE) :
                img \in Imgs, role \in Roles, store \in StoreIds} : Invalid(d) <= 1}

CreateRequests ==
    {d \in UNION {{Data("create", img, role, store, id, upd) :
                      img \in Imgs, role \in Roles, store \in StoreIds} :
                   id \in SubjectIds, upd \in BOOLEAN} : Invalid(d) <= 1}

\* recognize_face up to the asyncio.gather of ensure_collections_exist and
\* detect_and_embed_face. A TypeError of check_condition is caught by the
\* handler's own except clause (lines 457-477, img_decode is None).
recognize_face(r) ==
    /\ Arrives(r)
    /\ \E data \in RecognizeRequests :
         LET c == check_condition(data, TRUE)
         IN  /\ req' = [req EXCEPT ![r] = data]
             /\ IF c.raised THEN Answer(r, Resp(500, 1, "Unknown", NoField))
                ELSE IF ~c.ok THEN Answer(r, Rejected400(c.message))
                ELSE Goto(r, "acquire_processing")
    /\ UNCHANGED <<semVars, full, faces, checks, others>>

\* create_face up to the asyncio.gather. check_condition is called outside
\* any try: its TypeError reaches the router (routers/face.py lines 105-110).
create_face(r) ==
    /\ Arrives(r)
    /\ \E data \in CreateRequests :
         LET c == check_condition(data, FALSE)
         IN  /\ req' = [req EXCEPT ![r] = data]
             /\ IF c.raised THEN Answer(r, Resp(500, 2, NoField, "Internal server error: TypeError"))
                ELSE IF ~c.ok THEN Answer(r, Rejected400(c.message))
                ELSE Goto(r, "acquire_processing")
    /\ UNCHANGED <<semVars, full, faces, checks, others>>

\* delete_face up to the await of database_client.delete_point
delete_face(r) ==
    /\ Arrives(r)
    /\ \E store \in StoreIds, id \in SubjectIds :
         /\ req' = [req EXCEPT ![r] = Data("delete", NoField, NoField, store, id, FALSE)]
         /\ IF id = "None" THEN Answer(r, Rejected400("id is required"))
            ELSE Goto(r, "await_delete")
    /\ UNCHANGED <<semVars, full, faces, checks, others>>

\* detect_and_embed_face: `async with PROCESSING_SEMAPHORE` lets the request
\* in; decode; with is_checkin the two landmark checks are handed to the
\* pool and face_direction_task is awaited, without it the detection stage
\* follows at once. base64.b64decode may raise; cv2.imdecode of bytes that
\* are no image returns None, on which every later check raises.
AcquireProcessing(r) ==
    /\ pc[r] = "acquire_processing"
    /\ SemFree(PROCESSING_SEMAPHORE)
    /\ LET v == Acquired(PROCESSING_SEMAPHORE)
       IN  \/ /\ req[r].img_base64 = "garbage"
              /\ Exit(r, "fault", FALSE, ErrorDetecting, v)
              /\ UNCHANGED <<faces, checks>>
           \/ /\ is_checkin(r)
              /\ Continue(r, NextStage("decode", TRUE), v)
              /\ UNCHANGED <<faces, checks>>
           \/ /\ ~is_checkin(r)
              /\ DetectStage(r, v)
    /\ UNCHANGED <<HTTP_SEMAPHORE, req, others>>

\* variant: leaving the pool cancels the task that was not awaited
shutdownMut(task_result) == "-"

\* `with ThreadPoolExecutor() as pool` is left through pool.shutdown(wait=True):
\* a task handed to the pool and not awaited has run to its result
\* (task_result) when the `with` block is left, by return or by exception
shutdown(task_result) == task_result

\* variant: closed eyes are reported before the face direction
NotAlignedMessageMut(message_flr, check_eyes) ==
    IF check_eyes = "False" THEN "Eyes are closed! Please open your eyes" ELSE message_flr

\* `if not check_flr: return False, JSONResponse(400, message_flr)`: the
\* eyes task is not looked at
NotAlignedMessage(message_flr, check_eyes) == message_flr

\* check_flr, message_flr = await face_direction_task. The eyes task was
\* handed to the pool together with the face direction task and comes to
\* its result whatever the handler does: a return inside `with
\* ThreadPoolExecutor()` waits for it, and nobody reads what it raised.
FaceDirectionDone(r) ==
    /\ pc[r] = "await_face_direction"
    /\ \E check_eyes \in TaskResults, check_flr \in TaskResults :
         /\ checks' = [checks EXCEPT
                         ![r].check_flr = check_flr,
                         ![r].check_eyes = IF check_flr = "True" THEN check_eyes
                                           ELSE shutdown(check_eyes)]
         /\ \/ /\ check_flr = "raise"
               /\ Exit(r, "fault", FALSE, ErrorDetecting, PROCESSING_SEMAPHORE)
            \/ /\ check_flr = "False"
               /\ req[r].img_base64 = "image"
               /\ \E message_flr \in FaceDirectionMessages :
                     Exit(r, "rejection", FALSE,
                          Rejected400(NotAlignedMessage(message_flr, check_eyes)),
                          PROCESSING_SEMAPHORE)
            \/ /\ check_flr = "True"
               /\ req[r].img_base64 = "image"
               /\ Continue(r, NextStage("await_face_direction", TRUE), PROCESSING_SEMAPHORE)
    /\ UNCHANGED <<HTTP_SEMAPHORE, req, faces, others>>

\* check_eyes = await eyes_open_task, then the detection stage
EyesOpenDone(r) ==
    /\ pc[r] = "await_eyes_open"
    /\ \/ /\ checks[r].check_eyes = "raise"
          /\ Exit(r, "fault", FALSE, ErrorDetecting, PROCESSING_SEMAPHORE)
          /\ UNCHANGED <<faces, checks>>
       \/ /\ checks[r].check_eyes = "False"
          /\ Exit(r, "rejection", FALSE,
                  Rejected400("Eyes are closed! Please open your eyes"), PROCESSING_SEMAPHORE)
          /\ UNCHANGED <<faces, checks>>
       \/ /\ checks[r].check_eyes = "True"
          /\ DetectStage(r, PROCESSING_SEMAPHORE)
    /\ UNCHANGED <<HTTP_SEMAPHORE, req, others>>

\* check_full_face, mess_full_face = await full_face_task
FullFaceDone(r) ==
    /\ pc[r] = "await_full_face"
    /\ \/ /\ Exit(r, "fault", FALSE, ErrorProcessing, PROCESSING_SEMAPHORE)
          /\ \E check_face_blur \in TaskResults :
                checks' = [checks EXCEPT ![r].check_full_face = "raise",
                                         ![r].check_face_blur = shutdown(check_face_blur)]
       \/ /\ \E m \in FullFaceMessages \cup {"Face is detected"} :
                full' = [full EXCEPT ![r] = m]
          /\ pc' = [pc EXCEPT ![r] = NextStage("await_full_face", TRUE)]
          /\ UNCHANGED <<PROCESSING_SEMAPHORE, det, message, face_id, resp, checks>>
    /\ UNCHANGED <<HTTP_SEMAPHORE, req, faces, others>>

\* variant: the blur verdict is looked at first
QualityMessageMut(mess_full_face, check_face_blur) ==
    IF ~check_face_blur THEN "Face is blur! Please keep your face in focus"
    ELSE IF mess_full_face # "Face is detected" THEN mess_full_face
    ELSE "pass"

\* `if not check_full_face: ... mess_full_face` comes before
\* `if not check_face_blur: ...`; "pass" when neither returns
QualityMessage(mess_full_face, check_face_blur) ==
    IF mess_full_face # "Face is detected" THEN mess_full_face
    ELSE IF ~check_face_blur THEN "Face is blur! Please keep your face in focus"
    ELSE "pass"

\* check_face_blur = await blur_face_task; the full-face verdict is looked
\* at first; then adjust_gamma and the embedding task is handed to the pool
BlurDone(r) ==
    /\ pc[r] = "await_blur_face"
    /\ \/ /\ Exit(r, "fault", FALSE, ErrorProcessing, PROCESSING_SEMAPHORE)
          /\ checks' = [checks EXCEPT ![r].check_face_blur = "raise"]
       \/ \E check_face_blur \in BOOLEAN :
            LET m == QualityMessage(full[r], check_face_blur)
            IN  /\ checks' = [checks EXCEPT
                                ![r].check_full_face =
                                    IF full[r] = "Face is detected" THEN "True" ELSE "False",
                                ![r].check_face_blur =
                                    IF check_face_blur THEN "True" ELSE "False"]
                /\ IF m # "pass"
                   THEN Exit(r, "rejection", FALSE, Rejected400(m), PROCESSING_SEMAPHORE)
                   ELSE Continue(r, NextStage("await_blur_face", TRUE), PROCESSING_SEMAPHORE)
    /\ UNCHANGED <<HTTP_SEMAPHORE, req, faces, others>>

\* variant: the liveness judgment is not looked at
SpoofRejectedMut(is_real, checkin) == FALSE

\* if not is_real and is_checkin
SpoofRejected(is_real, checkin) == ~is_real /\ checkin

\* emb, is_real = await emb_task
EmbDone(r) ==
    /\ pc[r] = "await_emb"
    /\ \/ /\ Exit(r, "fault", FALSE, Resp(500, 2, NoField, "Error! Please try again"),
                  PROCESSING_SEMAPHORE)
          /\ checks' = [checks EXCEPT ![r].is_real = "raise"]
       \/ \E is_real \in BOOLEAN :
            /\ checks' = [checks EXCEPT ![r].is_real = IF is_real THEN "True" ELSE "False"]
            /\ IF SpoofRejected(is_real, is_checkin(r))
               THEN Exit(r, "rejection", FALSE,
                         Rejected400("Face is not real! Please use your real face"),
                         PROCESSING_SEMAPHORE)
               ELSE Exit(r, "success", TRUE, NoResponse, PROCESSING_SEMAPHORE)
    /\ UNCHANGED <<HTTP_SEMAPHORE, req, faces, others>>

\* collection_exists, (check_emb, message) = await asyncio.gather(...):
\* ensure_collections_exist has answered too (True, or False on any error)
GatherDone(r) ==
    /\ pc[r] = "gather"
    /\ \E collection_exists \in BOOLEAN :
         IF ~collection_exists
         THEN Answer(r, Resp(500, 2, NoField,
                             IF req[r].op = "recognize" THEN "Error when create collection"
                             ELSE "Error! Please try again"))
         ELSE IF det[r] = "False" THEN Answer(r, message[r])
         ELSE IF req[r].op = "create" /\ req[r].is_update THEN Goto(r, "await_insert")
         ELSE Goto(r, "acquire_http")
    /\ checks' = [checks EXCEPT ![r] = NoChecks]
    /\ UNCHANGED <<semVars, req, full, faces, others>>

\* search_face: `async with HTTP_SEMAPHORE` lets the request in and
\* database_client.search_point is awaited
AcquireHttp(r) ==
    /\ pc[r] = "acquire_http"
    /\ SemFree(HTTP_SEMAPHORE)
    /\ HTTP_SEMAPHORE' = Acquired(HTTP_SEMAPHORE)
    /\ Goto(r, "await_search")
    /\ UNCHANGED <<PROCESSING_SEMAPHORE, req, full, faces, checks, others>>

NotExisted ==
    Resp(404, 0, NoField, "Face is not existed! Please register your face or checkin again")

\* search_face returns; found is the payload id of the one entry of 'data',
\* NoField when 'data' is empty (no match, or search_point failed and
\* answered []). recognize_face goes on to save the image or answers 404;
\* create_face answers 409 or goes on to insert_point.
SearchDone(r) ==
    /\ pc[r] = "await_search"
    /\ \E kind \in {"success", "fault"}, found \in StoredIds \cup {NoField} :
         /\ kind = "fault" => found = NoField
         /\ HTTP_SEMAPHORE' = aexit(kind, HTTP_SEMAPHORE)
         /\ IF req[r].op = "recognize"
            THEN IF found = NoField THEN Answer(r, NotExisted)
                 ELSE /\ pc' = [pc EXCEPT ![r] = "await_save"]
                      /\ face_id' = [face_id EXCEPT ![r] = found]
                      /\ UNCHANGED <<resp, det, message>>
            ELSE IF found # NoField
                 THEN Answer(r, Resp(409, 0, NoField, "Face is existed! Please use another face"))
                 ELSE Goto(r, "await_insert")
    /\ UNCHANGED <<PROCESSING_SEMAPHORE, req, full, faces, checks, others>>

\* success = await self.database_client.insert_point(...)
InsertDone(r) ==
    /\ pc[r] = "await_insert"
    /\ \E success \in BOOLEAN :
         IF success THEN Goto(r, "await_save")
         ELSE Answer(r, Resp(500, 2, NoField, "Error when insert face"))
    /\ UNCHANGED <<semVars, req, full, faces, checks, others>>

\* await self.image_processor.save_face_image(...), which never raises; the
\* handler answers 200 with the identity, or 201 for an enrollment
SaveDone(r) ==
    /\ pc[r] = "await_save"
    /\ IF req[r].op = "recognize" THEN Answer(r, Resp(200, 1, face_id[r], NoField))
       ELSE Answer(r, Resp(201, 1, NoField,
                           IF req[r].is_update THEN "update face successfully"
                           ELSE "create face successfully"))
    /\ UNCHANGED <<semVars, req, full, faces, checks, others>>

\* success = await self.database_client.delete_point(...)
DeleteDone(r) ==
    /\ pc[r] = "await_delete"
    /\ \E success \in BOOLEAN :
         IF success THEN Answer(r, Resp(200, 1, NoField, "Delete face successfully"))
         ELSE Answer(r, Resp(404, 0, NoField, "Not found employee"))
    /\ UNCHANGED <<semVars, req, full, faces, checks, others>>

\* one step of request r once it was sent
Step(r) ==
    \/ AcquireProcessing(r)
    \/ FaceDirectionDone(r)
    \/ EyesOpenDone(r)
    \/ FullFaceDone(r)
    \/ BlurDone(r)
    \/ EmbDone(r)
    \/ GatherDone(r)
    \/ AcquireHttp(r)
    \/ SearchDone(r)
    \/ InsertDone(r)
    \/ SaveDone(r)
    \/ DeleteDone(r)

Next ==
    \E r \in Reqs :
        \/ recognize_face(r)
        \/ create_face(r)
        \/ delete_face(r)
        \/ Step(r)

Spec == Init /\ [][Next]_vars

\* Every provider and store call that was started returns or fails, and the
\* event loop resumes a request whose await has completed.
FairSpec == Spec /\ \A r \in Reqs : WF_vars(Step(r))

(***************************************************************************)
(* Identity resolver: qdrant_database_FE/app.py, search_point              *)
(***************************************************************************)

THRESHOLD_PASS == 54

THRESHOLD_SEARCH == 54

\* limit=5 of client.search
TopK == 5

Ids == {"A", "B", "C"}

Scores == {50, 54, 55, 60, 90}

\* The hit at rank i: its payload is the payload of one stored point; stored
\* points carry pairwise different names, so a returned payload tells which
\* hit it was taken from.
Hit(i, sc, id) == [score |-> sc, payload |-> [id |-> id, name |-> "n" \o ToString(i)]]

\* the specification's worked example of the majority case
MajorityExample ==
    <<Hit(1, 90, "A"), Hit(2, 88, "A"), Hit(3, 60, "B"), Hit(4, 50, "C"), Hit(5, 40, "C")>>

\* a worked example of the tie case
TieExample ==
    <<Hit(1, 60, "A"), Hit(2, 55, "B"), Hit(3, 40, "C"), Hit(4, 30, "D"), Hit(5, 20, "E")>>

\* variant: a score equal to the threshold does not pass
PassMut(sc) == sc > THRESHOLD_PASS

\* i.score >= THRESHOLD_PASS
Pass(sc) == sc >= THRESHOLD_PASS

\* data = [(i.score, i.payload) for i in result if i.score >= THRESHOLD_PASS]
data(res) == SelectSeq(res, LAMBDA i : Pass(i.score))

\* data_dict[id]: the number of passing hits with that payload id
data_dict(res, id) ==
    Cardinality({k \in DOMAIN res : Pass(res[k].score) /\ res[k].payload.id = id})

\* the keys of data_dict
data_dict_keys(res) == {res[k].payload.id : k \in {j \in DOMAIN res : Pass(res[j].score)}}

\* the rank at which a key was inserted into data_dict (dicts keep insertion order)
KeyRank(res, id) ==
    CHOOSE k \in DOMAIN res :
        /\ Pass(res[k].score) /\ res[k].payload.id = id
        /\ \A j \in 1..(k - 1) : ~(Pass(res[j].score) /\ res[j].payload.id = id)

\* len(set(data_dict.values())) == 1 and len(data_dict) > 1
AllValuesSame(res) ==
    /\ Cardinality({data_dict(res, id) : id \in data_dict_keys(res)}) = 1
    /\ Cardinality(data_dict_keys(res)) > 1

\* data_result = [(i.score, i.payload) for i in result if i.score >= THRESHOLD_SEARCH]
data_result(res) == SelectSeq(res, LAMBDA i : i.score >= THRESHOLD_SEARCH)

\* variant: the last maximum
FirstMaxMut(s) ==
    s[CHOOSE k \in DOMAIN s :
        /\ \A j \in DOMAIN s : s[j].score <= s[k].score
        /\ \A j \in (k + 1)..Len(s) : s[j].score < s[k].score]

\* max(data_result, key=lambda x: x[0]): Python's max keeps the first maximum
FirstMax(s) ==
    s[CHOOSE k \in DOMAIN s :
        /\ \A j \in DOMAIN s : s[j].score <= s[k].score
        /\ \A j \in 1..(k - 1) : s[j].score < s[k].score]

\* variant: the first key, whatever its count
id_maxMut(res) ==
    CHOOSE id \in data_dict_keys(res) :
        \A other \in data_dict_keys(res) : KeyRank(res, id) <= KeyRank(res, other)

\* variant: the last key among those with the highest count
id_maxLast(res) ==
    CHOOSE id \in data_dict_keys(res) :
        /\ \A other \in data_dict_keys(res) : data_dict(res, other) <= data_dict(res, id)
        /\ \A other \in data_dict_keys(res) :
              data_dict(res, other) = data_dict(res, id) => KeyRank(res, other) <= KeyRank(res, id)

\* id_max = max(data_dict, key=data_dict.get): the first key, in insertion
\* order, among those with the highest count
id_max(res) ==
    CHOOSE id \in data_dict_keys(res) :
        /\ \A other \in data_dict_keys(res) : data_dict(res, other) <= data_dict(res, id)
        /\ \A other \in data_dict_keys(res) :
              data_dict(res, other) = data_dict(res, id) => KeyRank(res, id) <= KeyRank(res, other)

\* variant: the lowest score of the id
MaxScoreOfMut(res, id) ==
    CHOOSE sc \in {res[k].score : k \in {j \in DOMAIN res : res[j].payload.id = id}} :
        \A k \in DOMAIN res : res[k].payload.id = id => sc <= res[k].score

\* scores = [i.score for i in result if i.payload['id'] == id_max]; max(scores)
MaxScoreOf(res, id) ==
    CHOOSE sc \in {res[k].score : k \in {j \in DOMAIN res : res[j].payload.id = id}} :
        \A k \in DOMAIN res : res[k].payload.id = id => res[k].score <= sc

\* for i in result: if i.payload['id'] == id_max: payload = i.payload; break
FirstPayloadOf(res, id) ==
    res[CHOOSE k \in DOMAIN res :
            /\ res[k].payload.id = id
            /\ \A j \in 1..(k - 1) : res[j].payload.id # id].payload

PointNotFound == [message |-> "Point not found", data |-> <<>>]

PointFound(score, payload) == [message |-> "Point found", data |-> << <<score, payload>> >>]

\* the body search_point answers with (status 200) for the hits client.search returned
Resolve(res) ==
    IF Len(data(res)) = 0 THEN PointNotFound
    ELSE IF AllValuesSame(res)
         THEN IF Len(data_result(res)) = 0 THEN PointNotFound
              ELSE PointFound(FirstMax(data_result(res)).score,
                              FirstMax(data_result(res)).payload)
         ELSE LET im == id_max(res)
              IN  PointFound(MaxScoreOf(res, im), FirstPayloadOf(res, im))

NotAnswered == [message |-> "none", data |-> <<>>]

\* Before the store has answered: no hit yet, or one of the worked examples
\* as the whole answer.
InitResolver ==
    /\ result \in {<<>>, MajorityExample, TieExample}
    /\ response = NotAnswered
    /\ PROCESSING_SEMAPHORE = ProcessingCapacity
    /\ HTTP_SEMAPHORE = HttpCapacity
    /\ NoRequests
    /\ NoStore
    /\ NoLandmarks
    /\ NoEnsure
    /\ NoBatch
    /\ NoRace
    /\ NoLoop
    /\ NoSelect
    /\ at = [l \in GovLocs |-> 0]

\* client.search(limit=5): the store adds the next hit of its answer; hits
\* come ranked by decreasing cosine score, at most TopK of them
client_search ==
    /\ response = NotAnswered
    /\ Len(result) < TopK
    /\ \E sc \in {x \in Scores : result = <<>> \/ x <= result[Len(result)].score}, id \in Ids :
          result' = Append(result, Hit(Len(result) + 1, sc, id))
    /\ UNCHANGED <<response, semVars, reqVars, govVars, storeVars, selectVars, loopVars, raceVars, batchVars, ensureVars, landmarkVars>>

\* variant: a tie goes to any of the hits at or above THRESHOLD_SEARCH
ResolutionsMut(res) ==
    IF Len(data(res)) # 0 /\ AllValuesSame(res) /\ Len(data_result(res)) # 0
    THEN {PointFound(data_result(res)[k].score, data_result(res)[k].payload) :
            k \in DOMAIN data_result(res)}
    ELSE {Resolve(res)}

\* what one invocation of search_point may answer for the hits: it reads
\* the hits and the two thresholds, no clock, no random source and nothing
\* an earlier request left behind; dicts and max go by insertion order
Resolutions(res) == {Resolve(res)}

\* POST /search_point, from the hits on; the same search may be sent again
search_point ==
    /\ response' \in Resolutions(result)
    /\ UNCHANGED <<result, semVars, reqVars, govVars, storeVars, selectVars, loopVars, raceVars, batchVars, ensureVars, landmarkVars>>

NextResolver == client_search \/ search_point

SpecResolver == InitResolver /\ [][NextResolver]_vars

(***************************************************************************)
(* Vector store: qdrant_database_FE/app.py (insert_point, search_point,    *)
(* delete_point), database_client.py, and the handlers of face_service.py  *)
(* from the embedding on. Requests are served one after another.           *)
(***************************************************************************)

\* points the store may hold in SpecStore
MaxPoints == 2

\* VectorParams(size=4096): the length insert_point and search_point accept
VectorSize == 4096

\* the faces captures are taken of; an embedding is the face it was
\* computed from and its length
Faces == {"f1", "f2"}

EmbLens == {VectorSize, 128}

EnrollIds == {"X", "Y"}

EnrollRoles == {"1", "0"}

\* the stores the requests of SpecStore name
EnrollStores == {"s1", "s2"}

\* Distance.COSINE, in hundredths: two embeddings of one face score above
\* THRESHOLD_PASS, embeddings of different faces below it
cosine(f, g) == IF f = g THEN 90 ELSE 40

\* collection_name = f'{store_id}_Employees' for role '1', f'{store_id}_Customers' for '0'
collection_name(store_id, role) ==
    store_id \o (IF role = "1" THEN "_Employees" ELSE "_Customers")

\* PointStruct(id=_id, vector=embedding, payload=payload) in a collection
PointStruct(pid, vec, id, store_id, cname) ==
    [pid |-> pid, vector |-> vec, payload |-> [id |-> id, store_id |-> store_id],
     collection_name |-> cname]

\* _id = str(uuid4()): an id no point carries
uuid4 == CHOOSE n \in 1..(MaxPoints + 1) : \A q \in collection : q.pid # n

\* what a store call comes to: the store answered; it could not be reached
\* or failed inside; it did the work but the reply was lost (timeout)
StoreCalls == {"answered", "down", "lost"}

\* no reply: httpx raises
NoReply == [code |-> 0, message |-> "-", data |-> <<>>]

\* variant: the store_id filter alone, over every collection
InScopeMut(cname, store_id) == {q \in collection : q.payload.store_id = store_id}

\* the points client.search looks at: the collection, filtered by store_id
InScope(cname, store_id) ==
    {q \in collection : q.collection_name = cname /\ q.payload.store_id = store_id}

\* client.search(limit=5): the best-scoring points, ranked by decreasing
\* score; points of equal score come in any order
Rankings(ps, vec) ==
    LET n == IF Cardinality(ps) < TopK THEN Cardinality(ps) ELSE TopK
    IN  {s \in [1..n -> ps] :
            /\ \A i, j \in 1..n :
                  i < j => (s[i] # s[j] /\ cosine(s[i].vector, vec) >= cosine(s[j].vector, vec))
            /\ \A q \in ps \ {s[i] : i \in 1..n} :
                  \A i \in 1..n : cosine(q.vector, vec) <= cosine(s[i].vector, vec)}

\* result: the ScoredPoints of a ranking
ScoredPoints(s, vec) ==
    [i \in DOMAIN s |-> [score |-> cosine(s[i].vector, vec), payload |-> s[i].payload]]

\* POST /search_point of the store: 404 for an embedding of the wrong
\* length, else the resolver's answer for the hits
app_search_point(len, hits) ==
    IF len # VectorSize
    THEN [code |-> 404, message |-> "Embedding not found or invalid!", data |-> <<>>]
    ELSE [code |-> 200, message |-> Resolve(hits).message, data |-> Resolve(hits).data]

\* DatabaseClient.search_point: raise_for_status raises on 4xx/5xx and
\* httpx raises when there is no reply; every exception is answered []
db_search_point(reply) ==
    IF reply.code # 200 THEN <<>>
    ELSE IF reply.message = "Point found"
    THEN [i \in DOMAIN reply.data |->
            [id |-> reply.data[i][2].id, score |-> reply.data[i][1], payload |-> reply.data[i][2]]]
    ELSE <<>>

\* FaceService.search_face, from the client's answer on
search_face(search_results) ==
    IF search_results # <<>>
    THEN [message |-> "Point found",
          data |-> [i \in DOMAIN search_results |->
                        <<search_results[i].score, search_results[i].payload>>]]
    ELSE [message |-> "Point not found", data |-> <<>>]

\* FaceService.extract_face_info: the id of the first entry, "Unknown" without one
extract_face_info(search_result) ==
    IF Len(search_result.data) = 0 THEN "Unknown" ELSE search_result.data[1][2].id

\* POST /insert_point of the store: every outcome it can have, as the status
\* code and the points held afterwards. With is_update_id the first point
\* the scroll by payload id returns is overwritten, keeping its payload.
app_insert_point(cname, vec, len, id, store_id, is_update_id) ==
    IF len # VectorSize \/ id = ""
    THEN {[code |-> 404, points |-> collection]}
    ELSE IF ~is_update_id
    THEN {[code |-> 201,
           points |-> collection \cup {PointStruct(uuid4, vec, id, store_id, cname)}]}
    ELSE LET p == {q \in collection : q.collection_name = cname /\ q.payload.id = id}
         IN  IF p = {} THEN {[code |-> 404, points |-> collection]}
             ELSE {[code |-> 201,
                    points |-> (collection \ {q})
                                 \cup {[q EXCEPT !.vector = vec]}] : q \in p}

\* variant: one point with the payload id is deleted, the others stay
app_delete_pointMut(cname, id) ==
    LET p == {q \in collection : q.collection_name = cname /\ q.payload.id = id}
    IN  IF id = "" THEN [code |-> 404, points |-> collection]
        ELSE [code |-> 200,
              points |-> IF p = {} THEN collection ELSE collection \ {CHOOSE q \in p : TRUE}]

\* DELETE /delete_point of the store, for a collection that exists: every
\* point of the collection whose payload id is the given one is deleted by
\* filter; 200 whether or not there was one
app_delete_point(cname, id) ==
    IF id = "" THEN [code |-> 404, points |-> collection]
    ELSE [code |-> 200,
          points |-> {q \in collection : ~(q.collection_name = cname /\ q.payload.id = id)}]

\* the request served and how it went: what the store's resolver found
\* (found), what became of each store call, the handler's response
Call(op, id, store_id, role, face, len, upd, search, insert, delete, found, r) ==
    [op |-> op, id |-> id, store_id |-> store_id, role |-> role, face |-> face, len |-> len,
     is_update |-> upd, search |-> search, insert |-> insert, delete |-> delete, found |-> found, resp |-> r]

\* the store's reply to POST /search_point for a request, and the id its
\* resolver found ("-" without a match or without a reply)
SearchReply(search, len, s, vec) ==
    IF search = "answered" THEN app_search_point(len, ScoredPoints(s, vec)) ELSE NoReply

FoundBy(reply) ==
    IF reply.code = 200 /\ reply.message = "Point found" THEN reply.data[1][2].id ELSE "-"

\* the rankings client.search may return for a request, if it gets that far
SearchRankings(search, len, cname, store_id, vec) ==
    IF search = "answered" /\ len = VectorSize THEN Rankings(InScope(cname, store_id), vec)
    ELSE {<<>>}

\* variant: one match is let through
ExistedMut(search_result) == Len(search_result.data) > 1

\* create_face: search_result.get('data') and len(search_result['data']) > 0
Existed(search_result) == Len(search_result.data) > 0

InitStore ==
    /\ collection = {}
    /\ served = NoCall
    /\ PROCESSING_SEMAPHORE = ProcessingCapacity
    /\ HTTP_SEMAPHORE = HttpCapacity
    /\ NoRequests
    /\ NoLandmarks
    /\ NoEnsure
    /\ NoBatch
    /\ NoRace
    /\ NoLoop
    /\ NoSelect
    /\ at = [l \in GovLocs |-> 0]
    /\ result = <<>>
    /\ response = [message |-> "none", data |-> <<>>]

\* create_face, once detect_and_embed_face has returned an embedding and
\* the collections exist: without is_update search_face is asked and a hit
\* answers 409; then insert_point (always with is_update_id=False), 500 if
\* it did not come back with 201, else 201.
create_face_store ==
    /\ served = NoCall
    /\ Cardinality(collection) < MaxPoints
    /\ \E id \in EnrollIds, store_id \in EnrollStores, role \in EnrollRoles, face \in Faces,
          len \in EmbLens, upd \in BOOLEAN, search \in {"answered", "down", "-"},
          insert \in StoreCalls \cup {"-"} :
         LET cname == collection_name(store_id, role)
         IN  /\ upd <=> (search = "-")
             /\ \E s \in SearchRankings(search, len, cname, store_id, face) :
                  LET reply == SearchReply(search, len, s, face)
                      search_result == search_face(db_search_point(reply))
                      refused == ~upd /\ Existed(search_result)
                      sent == Call("create", id, store_id, role, face, len, upd, search, insert, "-",
                                   FoundBy(reply), NoResponse)
                  IN  /\ refused <=> (insert = "-")
                      /\ IF refused
                         THEN /\ collection' = collection
                              /\ served' =
                                   [sent EXCEPT !.resp =
                                      Resp(409, 0, NoField, "Face is existed! Please use another face")]
                         ELSE \E out \in
                                IF insert = "down" THEN {[code |-> 0, points |-> collection]}
                                ELSE app_insert_point(cname, face, len, id, store_id, FALSE) :
                                /\ collection' = out.points
                                /\ served' =
                                     [sent EXCEPT !.resp =
                                        IF insert = "answered" /\ out.code = 201
                                        THEN Resp(201, 1, NoField,
                                                  IF upd THEN "update face successfully"
                                                  ELSE "create face successfully")
                                        ELSE Resp(500, 2, NoField, "Error when insert face")]
    /\ UNCHANGED <<semVars, reqVars, govVars, resolverVars, selectVars, loopVars, raceVars, batchVars, ensureVars, landmarkVars>>

\* recognize_face, once detect_and_embed_face has returned an embedding and
\* the collections exist: search_face, extract_face_info, 404 for "Unknown",
\* else 200 with the id found.
recognize_face_store ==
    /\ served = NoCall
    /\ \E store_id \in EnrollStores, role \in EnrollRoles, face \in Faces, len \in EmbLens,
          search \in {"answered", "down"} :
         LET cname == collection_name(store_id, role)
         IN  \E s \in SearchRankings(search, len, cname, store_id, face) :
               LET reply == SearchReply(search, len, s, face)
                   search_result == search_face(db_search_point(reply))
                   found_id == extract_face_info(search_result)
               IN  served' =
                     Call("recognize", NoField, store_id, role, face, len, FALSE, search, "-", "-",
                          FoundBy(reply),
                          IF found_id = "Unknown" THEN NotExisted
                          ELSE Resp(200, 1, found_id, NoField))
    /\ UNCHANGED <<collection, semVars, reqVars, govVars, resolverVars, selectVars, loopVars, raceVars, batchVars, ensureVars, landmarkVars>>

\* delete_face with an id: delete_point on the store's Employees collection,
\* 404 unless it came back with 200.
delete_face_store ==
    /\ served = NoCall
    /\ \E id \in EnrollIds, store_id \in EnrollStores, delete \in StoreCalls :
         LET out == app_delete_point(collection_name(store_id, "1"), id)
         IN  /\ collection' = IF delete = "down" THEN collection ELSE out.points
             /\ served' =
                  Call("delete", id, store_id, "1", NoField, 0, FALSE, "-", "-", delete, "-",
                       IF delete = "answered" /\ out.code = 200
                       THEN Resp(200, 1, NoField, "Delete face successfully")
                       ELSE Resp(404, 0, NoField, "Not found employee"))
    /\ UNCHANGED <<semVars, reqVars, govVars, resolverVars, selectVars, loopVars, raceVars, batchVars, ensureVars, landmarkVars>>

\* the response is sent; the next request is taken up
return_store ==
    /\ served # NoCall
    /\ served' = NoCall
    /\ UNCHANGED <<collection, semVars, reqVars, govVars, resolverVars, selectVars, loopVars, raceVars, batchVars, ensureVars, landmarkVars>>

NextStore == create_face_store \/ recognize_face_store \/ delete_face_store \/ return_store

SpecStore == InitStore /\ [][NextStore]_vars

(***************************************************************************)
(* Face selection: legacy.py detect_face and the selection and distance    *)
(* stage of detect_and_embed_face (face_service.py lines 145-176), applied *)
(* to what the provider reported for one capture                           *)
(***************************************************************************)

\* faces the provider may report for one capture
MaxDetected == 3

SelectDists == {19, 20, 30, 55, 70, 71, 90}

\* a face detect_face keeps, at each distance, and the faces it stops at:
\* one below CONF_THRESHOLD, one judged not real
SelectCandidates ==
    [score : {CONF_THRESHOLD}, is_real : {TRUE}, dist : SelectDists]
        \cup [score : {CONF_THRESHOLD - 1}, is_real : {TRUE}, dist : {30}]
        \cup [score : {CONF_THRESHOLD}, is_real : {FALSE}, dist : {30}]

SelectAnswers == UNION {[1..n -> SelectCandidates] : n \in 0..MaxDetected}

\* boxes, scores, distances = detect_face(img_decode); idx_large =
\* np.argmin(distances), the distance check with is_checkin; np.argmin of
\* an empty array raises and the except clause of lines 261-273 answers
select(fd, checkin) ==
    LET distances == detect_face(fd)
        returned == [NoSelection EXCEPT !.done = TRUE, !.is_checkin = checkin,
                                        !.boxes = detect_face_boxes(fd),
                                        !.scores = detect_face_scores(fd),
                                        !.distances = distances]
    IN  IF distances = <<>>
        THEN [returned EXCEPT !.verdict = "Error when processing face! Please try again"]
        ELSE LET idx_large == argmin(distances)
                 distance == distances[idx_large]
             IN  [returned EXCEPT
                    !.idx_large = idx_large, !.distance = distance,
                    !.verdict = IF checkin THEN distance_check(distance) ELSE "pass"]

InitSelect ==
    /\ face_detected \in SelectAnswers
    /\ selection = NoSelection
    /\ PROCESSING_SEMAPHORE = ProcessingCapacity
    /\ HTTP_SEMAPHORE = HttpCapacity
    /\ NoRequests
    /\ NoStore
    /\ NoLandmarks
    /\ NoEnsure
    /\ NoBatch
    /\ NoRace
    /\ NoLoop
    /\ at = [l \in GovLocs |-> 0]
    /\ result = <<>>
    /\ response = [message |-> "none", data |-> <<>>]

\* the selection stage runs on the capture, in either mode
select_face ==
    /\ ~selection.done
    /\ \E checkin \in BOOLEAN : selection' = select(face_detected, checkin)
    /\ UNCHANGED <<face_detected, semVars, reqVars, govVars, resolverVars, storeVars, loopVars, raceVars, batchVars, ensureVars, landmarkVars>>

NextSelect == select_face

SpecSelect == InitSelect /\ [][NextSelect]_vars

(***************************************************************************)
(* Event loop: which steps of detect_and_embed_face run on the thread of   *)
(* the asyncio event loop and which on a thread of a ThreadPoolExecutor    *)
(* (face_service.py lines 60-259). A coroutine keeps the loop thread from  *)
(* one await to the next; nothing else runs on the loop meanwhile.         *)
(***************************************************************************)

\* requests followed through the event loop
NumTasks == 3

Tasks == 1..NumTasks

\* a request at loc in mode is_checkin
At(loc, checkin) == [loc |-> loc, is_checkin |-> checkin]

\* a coroutine gives the loop thread up (an await on a pool task, a return)
Yield == loop_thread' = 0

InitLoop ==
    /\ stage = [t \in Tasks |-> At("idle", FALSE)]
    /\ loop_thread = 0
    /\ PROCESSING_SEMAPHORE = ProcessingCapacity
    /\ HTTP_SEMAPHORE = HttpCapacity
    /\ NoRequests
    /\ NoStore
    /\ NoLandmarks
    /\ NoEnsure
    /\ NoBatch
    /\ NoRace
    /\ NoSelect
    /\ at = [l \in GovLocs |-> 0]
    /\ result = <<>>
    /\ response = [message |-> "none", data |-> <<>>]

loopOthers ==
    <<semVars, reqVars, govVars, resolverVars, storeVars, selectVars, raceVars, batchVars,
      ensureVars,
      landmarkVars>>

\* the loop runs the coroutine of t: `async with PROCESSING_SEMAPHORE`, then
\* base64.b64decode and cv2.imdecode called in the coroutine itself
enter(t) ==
    /\ stage[t].loc = "idle" /\ loop_thread = 0
    /\ \E checkin \in BOOLEAN : stage' = [stage EXCEPT ![t] = At("decode", checkin)]
    /\ loop_thread' = t
    /\ UNCHANGED loopOthers

\* decoding ends: it raised and the function returns; or with is_checkin
\* the two landmark checks go to the pool and face_direction_task is
\* awaited; or, without it, detect_face is called at once
decoded(t) ==
    /\ stage[t].loc = "decode" /\ loop_thread = t
    /\ \/ stage' = [stage EXCEPT ![t].loc = "returned"] /\ Yield
       \/ /\ stage[t].is_checkin
          /\ stage' = [stage EXCEPT ![t].loc = "await_face_direction"] /\ Yield
       \/ /\ ~stage[t].is_checkin
          /\ stage' = [stage EXCEPT ![t].loc = "detect_face"] /\ UNCHANGED loop_thread
    /\ UNCHANGED loopOthers

\* face_direction_task is done on its pool thread and the loop resumes the
\* coroutine: it returns (leaving the pool waits for the eyes task) or
\* awaits eyes_open_task
face_direction_done(t) ==
    /\ stage[t].loc = "await_face_direction" /\ loop_thread = 0
    /\ \E loc \in {"returned", "await_eyes_open"} : stage' = [stage EXCEPT ![t].loc = loc]
    /\ UNCHANGED <<loop_thread, loopOthers>>

\* eyes_open_task is done: the coroutine returns, or calls detect_face
\* itself (line 113), on the loop thread
eyes_open_done(t) ==
    /\ stage[t].loc = "await_eyes_open" /\ loop_thread = 0
    /\ \/ stage' = [stage EXCEPT ![t].loc = "returned"] /\ UNCHANGED loop_thread
       \/ stage' = [stage EXCEPT ![t].loc = "detect_face"] /\ loop_thread' = t
    /\ UNCHANGED loopOthers

\* detect_face returns or raises; selection, distance check and crop
\* follow in the coroutine; then the function returns, or the next tasks
\* go to the pool and the first is awaited
detected(t) ==
    /\ stage[t].loc = "detect_face" /\ loop_thread = t
    /\ \E loc \in {"returned", IF stage[t].is_checkin THEN "await_full_face" ELSE "await_emb"} :
          stage' = [stage EXCEPT ![t].loc = loc]
    /\ Yield
    /\ UNCHANGED loopOthers

\* full_face_task is done: blur_face_task is awaited, or the task raised
full_face_done(t) ==
    /\ stage[t].loc = "await_full_face" /\ loop_thread = 0
    /\ \E loc \in {"returned", "await_blur_face"} : stage' = [stage EXCEPT ![t].loc = loc]
    /\ UNCHANGED <<loop_thread, loopOthers>>

\* blur_face_task is done: the function returns, or adjusts gamma and
\* awaits the embedding task
blur_done(t) ==
    /\ stage[t].loc = "await_blur_face" /\ loop_thread = 0
    /\ \E loc \in {"returned", "await_emb"} : stage' = [stage EXCEPT ![t].loc = loc]
    /\ UNCHANGED <<loop_thread, loopOthers>>

\* emb_task is done and the function returns
emb_done(t) ==
    /\ stage[t].loc = "await_emb" /\ loop_thread = 0
    /\ stage' = [stage EXCEPT ![t].loc = "returned"]
    /\ UNCHANGED <<loop_thread, loopOthers>>

NextLoop ==
    \E t \in Tasks :
        \/ enter(t)
        \/ decoded(t)
        \/ face_direction_done(t)
        \/ eyes_open_done(t)
        \/ detected(t)
        \/ full_face_done(t)
        \/ blur_done(t)
        \/ emb_done(t)

SpecLoop == InitLoop /\ [][NextLoop]_vars

(***************************************************************************)
(* Concurrent enrollments: create_face without is_update from the          *)
(* duplicate search on (face_service.py lines 565-616), several requests   *)
(* at once on one collection of the store; every store call is answered    *)
(***************************************************************************)

\* create_face requests in flight at once
NumEnroll == 2

Enrollers == 1..NumEnroll

\* the collection the concurrent requests enroll into
RaceStore == "s1"

RaceCollection == collection_name(RaceStore, "1")

Enrolling(loc, face, id, code) == [pc |-> loc, face |-> face, id |-> id, code |-> code]

InitRace ==
    /\ enroll = [e \in Enrollers |-> Enrolling("idle", NoField, NoField, 0)]
    /\ collection = {}
    /\ served = NoCall
    /\ PROCESSING_SEMAPHORE = ProcessingCapacity
    /\ HTTP_SEMAPHORE = HttpCapacity
    /\ NoRequests
    /\ NoSelect
    /\ NoLoop
    /\ NoBatch
    /\ NoEnsure
    /\ NoLandmarks
    /\ at = [l \in GovLocs |-> 0]
    /\ result = <<>>
    /\ response = [message |-> "none", data |-> <<>>]

raceOthers ==
    <<served, semVars, reqVars, govVars, resolverVars, selectVars, loopVars, batchVars,
      ensureVars,
      landmarkVars>>

\* create_face has its embedding and awaits search_face
enroll_request(e) ==
    /\ enroll[e].pc = "idle"
    /\ \E face \in Faces, id \in EnrollIds :
          enroll' = [enroll EXCEPT ![e] = Enrolling("await_search", face, id, 0)]
    /\ UNCHANGED <<collection, raceOthers>>

\* the store answers the search on the points it holds now: 409 for a
\* match, else create_face awaits insert_point
enroll_search(e) ==
    /\ enroll[e].pc = "await_search"
    /\ \E s \in Rankings(InScope(RaceCollection, RaceStore), enroll[e].face) :
          LET reply == app_search_point(VectorSize, ScoredPoints(s, enroll[e].face))
              search_result == search_face(db_search_point(reply))
          IN  enroll' = [enroll EXCEPT ![e] =
                           IF Existed(search_result)
                           THEN [@ EXCEPT !.pc = "done", !.code = 409]
                           ELSE [@ EXCEPT !.pc = "await_insert"]]
    /\ UNCHANGED <<collection, raceOthers>>

\* the store upserts the point under a fresh uuid4 and answers 201
enroll_insert(e) ==
    /\ enroll[e].pc = "await_insert"
    /\ \E out \in app_insert_point(RaceCollection, enroll[e].face, VectorSize, enroll[e].id,
                                    RaceStore, FALSE) :
          /\ collection' = out.points
          /\ enroll' = [enroll EXCEPT ![e] =
                           [@ EXCEPT !.pc = "done",
                                     !.code = IF out.code = 201 THEN 201 ELSE 500]]
    /\ UNCHANGED raceOthers

NextRace ==
    \E e \in Enrollers :
        \/ enroll_request(e)
        \/ enroll_search(e)
        \/ enroll_insert(e)

SpecRace == InitRace /\ [][NextRace]_vars

(***************************************************************************)
(* Batch operations: recognize_face_batch and create_face_batch_customers  *)
(* (face_service.py lines 679-775, 777-879) behind their routers           *)
(* (routers/face.py lines 145-160, 176-191)                                *)
(***************************************************************************)

\* items a batch may hold
MaxItems == 3

BatchOps == {"recognize_face_batch", "create_face_batch_customers"}

\* asyncio.Semaphore(10) in recognize_face_batch, asyncio.Semaphore(8) in
\* create_face_batch_customers
BatchLimit(op) == IF op = "recognize_face_batch" THEN 10 ELSE 8

\* data_list: the role of each item
BatchLists == UNION {[1..n -> {"1", "0"}] : n \in 0..MaxItems}

\* `async with asyncio.Semaphore(n) as sem`: __aenter__ of an asyncio
\* semaphore acquires it and returns None, which is what sem is bound to
aenter(semaphore) == "None"

NoBatchAnswer == Resp(0, 0, NoField, NoField)

InitBatch ==
    /\ batch = [op |-> NoField, data_list |-> <<>>, items |-> <<>>, sem |-> NoField,
                resp |-> NoBatchAnswer]
    /\ PROCESSING_SEMAPHORE = ProcessingCapacity
    /\ HTTP_SEMAPHORE = HttpCapacity
    /\ NoRequests
    /\ NoStore
    /\ NoLandmarks
    /\ NoEnsure
    /\ NoSelect
    /\ NoLoop
    /\ NoRace
    /\ at = [l \in GovLocs |-> 0]
    /\ result = <<>>
    /\ response = [message |-> "none", data |-> <<>>]

batchOthers ==
    <<semVars, reqVars, govVars, resolverVars, storeVars, selectVars, loopVars, raceVars,
      ensureVars,
      landmarkVars>>

\* the handler is called with a list: the semaphore is made and entered,
\* one process_with_sem coroutine per item is handed to asyncio.gather
batch_request ==
    /\ batch.op = NoField
    /\ \E op \in BatchOps, data_list \in BatchLists :
          batch' = [op |-> op, data_list |-> data_list,
                    items |-> [i \in DOMAIN data_list |-> "queued"],
                    sem |-> aenter("Semaphore"), resp |-> NoBatchAnswer]
    /\ UNCHANGED batchOthers

\* items between `async with sem` and the return of their coroutine
InFlight == {i \in DOMAIN batch.items : batch.items[i] = "in_flight"}

\* process_with_sem of item i runs: `async with sem` raises on None (no
\* __aenter__), else lets the item in while a slot is free; an item let in
\* runs process_single_item, which catches what it raises, and returns
process_with_sem(i) ==
    /\ batch.items[i] \in {"queued", "in_flight"}
    /\ batch.items[i] = "queued" =>
          (batch.sem = "None" \/ Cardinality(InFlight) < BatchLimit(batch.op))
    /\ batch' = [batch EXCEPT !.items[i] =
                    IF batch.items[i] = "in_flight" THEN "done"
                    ELSE IF batch.sem = "None" THEN "raised"
                    ELSE "in_flight"]
    /\ UNCHANGED batchOthers

\* await asyncio.gather(*tasks) is over: with every coroutine returned the
\* handler answers 200; the first exception of a coroutine is raised to
\* the handler, which has no except clause, and the router answers 500
\* (the other coroutines go on)
batch_answer ==
    /\ batch.op # NoField /\ batch.resp = NoBatchAnswer
    /\ \/ /\ \A i \in DOMAIN batch.items : batch.items[i] = "done"
          /\ batch' = [batch EXCEPT !.resp =
                          Resp(200, 1, NoField,
                               IF batch.op = "recognize_face_batch"
                               THEN "Successfully processed batch"
                               ELSE "Successfully processed batch customers")]
       \/ /\ \E i \in DOMAIN batch.items : batch.items[i] = "raised"
          /\ batch' = [batch EXCEPT !.resp = Resp(500, 2, NoField, "Internal server error")]
    /\ UNCHANGED batchOthers

NextBatch == batch_request \/ (\E i \in DOMAIN batch.items : process_with_sem(i)) \/ batch_answer

SpecBatch == InitBatch /\ [][NextBatch]_vars

(***************************************************************************)
(* First use of a store: DatabaseClient.ensure_collections_exist           *)
(* (database_client.py lines 44-120) against GET /get_collections and POST *)
(* /create_collection of the store (qdrant_database_FE/app.py lines        *)
(* 72-74, 99-127), run by several requests at once for a store no          *)
(* collection exists of; every call is answered                            *)
(***************************************************************************)

\* requests that use the store for the first time at once
NumFirst == 2

FirstUsers == 1..NumFirst

\* customer_collection = f"{store_id}_Customers"
customer_collection(store_id) == collection_name(store_id, "0")

\* employee_collection = f"{store_id}_Employees"
employee_collection(store_id) == collection_name(store_id, "1")

\* a request for store_id at loc of ensure_collection_exists(name);
\* collection_exists and code are what the handler gets back and what it
\* answers for it
Ensuring(loc, store_id, name, customer_success, employee_success, collection_exists, code) ==
    [loc |-> loc, store_id |-> store_id, name |-> name, customer_success |-> customer_success,
     employee_success |-> employee_success, collection_exists |-> collection_exists,
     code |-> code]

InitEnsure ==
    /\ collections = {}
    /\ ensure = [e \in FirstUsers |-> Ensuring("idle", NoField, NoField, "-", "-", "-", 0)]
    /\ PROCESSING_SEMAPHORE = ProcessingCapacity
    /\ HTTP_SEMAPHORE = HttpCapacity
    /\ NoRequests
    /\ NoStore
    /\ NoLandmarks
    /\ NoSelect
    /\ NoLoop
    /\ NoRace
    /\ NoBatch
    /\ at = [l \in GovLocs |-> 0]
    /\ result = <<>>
    /\ response = [message |-> "none", data |-> <<>>]

ensureOthers ==
    <<semVars, reqVars, govVars, resolverVars, storeVars, selectVars, loopVars, raceVars,
      batchVars,
      landmarkVars>>

\* Qdrant's create_collection: a name it holds already is refused and
\* AsyncQdrantClient raises
qdrant_create_collection(name) ==
    IF name \in collections THEN [raised |-> TRUE, collections |-> collections]
    ELSE [raised |-> FALSE, collections |-> collections \cup {name}]

\* ensure_collection_exists(name) returns success: after the Customers
\* collection the Employees collection is ensured, whatever success was;
\* after it `return customer_success and employee_success`, and the handler
\* answers 500 for False (0: it goes on)
Ensured(e, success) ==
    ensure' = [ensure EXCEPT ![e] =
                 IF @.name = customer_collection(@.store_id)
                 THEN Ensuring("get_collections", @.store_id, employee_collection(@.store_id),
                               IF success THEN "True" ELSE "False", "-", "-", 0)
                 ELSE Ensuring("returned", @.store_id, @.name, @.customer_success,
                               IF success THEN "True" ELSE "False",
                               IF @.customer_success = "True" /\ success THEN "True" ELSE "False",
                               IF @.customer_success = "True" /\ success THEN 0 ELSE 500)]

\* the handler starts ensure_collections_exist(store_id), which awaits
\* get_collections for the Customers collection
ensure_collections_exist(e) ==
    /\ ensure[e].loc = "idle"
    /\ \E store_id \in EnrollStores :
          ensure' = [ensure EXCEPT ![e] =
                       Ensuring("get_collections", store_id, customer_collection(store_id),
                                "-", "-", "-", 0)]
    /\ UNCHANGED <<collections, ensureOthers>>

\* GET /get_collections is answered: the name is in the list, or POST
\* /create_collection is sent and its handler awaits _check_exist
get_collections(e) ==
    /\ ensure[e].loc = "get_collections"
    /\ IF ensure[e].name \in collections THEN Ensured(e, TRUE)
       ELSE ensure' = [ensure EXCEPT ![e].loc = "_check_exist"]
    /\ UNCHANGED <<collections, ensureOthers>>

\* _check_exist returns in the handler of POST /create_collection: 200
\* "Collection existed", or client.create_collection is awaited
check_exist(e) ==
    /\ ensure[e].loc = "_check_exist"
    /\ IF ensure[e].name \in collections THEN Ensured(e, TRUE)
       ELSE ensure' = [ensure EXCEPT ![e].loc = "create_collection"]
    /\ UNCHANGED <<collections, ensureOthers>>

\* client.create_collection returns and the handler answers 201, or it
\* raises and the store answers 500: raise_for_status raises in
\* DatabaseClient.create_collection, which returns False
create_collection(e) ==
    /\ ensure[e].loc = "create_collection"
    /\ LET out == qdrant_create_collection(ensure[e].name)
       IN  /\ collections' = out.collections
           /\ Ensured(e, ~out.raised)
    /\ UNCHANGED ensureOthers

NextEnsure ==
    \E e \in FirstUsers :
        \/ ensure_collections_exist(e)
        \/ get_collections(e)
        \/ check_exist(e)
        \/ create_collection(e)

SpecEnsure == InitEnsure /\ [][NextEnsure]_vars

(***************************************************************************)
(* Landmark checks: legacy.py check_eyes_open and is_full_face, applied to *)
(* what MediaPipe reports for one capture. Aspect ratios and relative      *)
(* coordinates are in hundredths (0.2 is 20).                              *)
(***************************************************************************)

EYE_AR_THRESH == 20

\* eye aspect ratios FaceMesh landmarks may give
Ears == {10, 19, 20, 21, 40}

\* results.multi_face_landmarks is empty
NoMesh == [found |-> FALSE, left_ear |-> 0, right_ear |-> 0]

\* the first face of results.multi_face_landmarks, by the aspect ratio of
\* each eye
Meshes == [found : {TRUE}, left_ear : Ears, right_ear : Ears] \cup {NoMesh}

\* image.shape[:2] of the crop handed to is_full_face
Shape == [height |-> 100, width |-> 100]

\* relative_keypoints: inside the frame, or beyond its left, right, top or
\* bottom edge
Keypoints ==
    {[x |-> 50, y |-> 50], [x |-> -10, y |-> 50], [x |-> 110, y |-> 50],
     [x |-> 50, y |-> -10], [x |-> 50, y |-> 110]}

\* results.detections is empty
NoDetection ==
    [found |-> FALSE, eye_right |-> [x |-> 0, y |-> 0], eye_left |-> [x |-> 0, y |-> 0],
     noise |-> [x |-> 0, y |-> 0], mouth |-> [x |-> 0, y |-> 0]]

\* the face of results.detections, by its keypoints
Detections ==
    [found : {TRUE}, eye_right : Keypoints, eye_left : Keypoints, noise : Keypoints,
     mouth : Keypoints]
        \cup {NoDetection}

\* ear = (left_ear + right_ear) / 2.0; return ear >= EYE_AR_THRESH, for the
\* first face; False without a face
check_eyes_open(mesh) ==
    IF ~mesh.found THEN FALSE
    ELSE mesh.left_ear + mesh.right_ear >= 2 * EYE_AR_THRESH

\* x_mouth = mouth.x * image.shape[1], and so on for every keypoint
Pixel(rel, size) == (rel * size) \div 100

\* `if x_mouth > width or y_mouth > height`, and so on for the keypoints
Beyond(k, image) == Pixel(k.x, image.width) > image.width \/ Pixel(k.y, image.height) > image.height

\* is_full_face: (check_full_face, mess_full_face)
is_full_face(image, detection) ==
    IF ~detection.found THEN <<FALSE, "Face is not detected">>
    ELSE IF Beyond(detection.mouth, image)
    THEN <<FALSE, "Your mouth is not detected! Please show your face">>
    ELSE IF Beyond(detection.eye_left, image)
    THEN <<FALSE, "Your left eye is not detected! Please show your face">>
    ELSE IF Beyond(detection.eye_right, image)
    THEN <<FALSE, "Your right eye is not detected! Please show your face">>
    ELSE IF Beyond(detection.noise, image)
    THEN <<FALSE, "Your noise is not detected! Please show your face">>
    ELSE <<TRUE, "Face is detected">>

NoVerdicts == [check_eyes |-> "-", check_full_face |-> "-", mess_full_face |-> "-"]

InitLandmarks ==
    /\ mediapipe \in [mesh : Meshes, detection : Detections]
    /\ verdicts = NoVerdicts
    /\ PROCESSING_SEMAPHORE = ProcessingCapacity
    /\ HTTP_SEMAPHORE = HttpCapacity
    /\ NoRequests
    /\ NoStore
    /\ NoSelect
    /\ NoLoop
    /\ NoRace
    /\ NoBatch
    /\ NoEnsure
    /\ at = [l \in GovLocs |-> 0]
    /\ result = <<>>
    /\ response = [message |-> "none", data |-> <<>>]

landmarkOthers ==
    <<mediapipe, semVars, reqVars, govVars, resolverVars, storeVars, selectVars, loopVars,
      raceVars, batchVars, ensureVars>>

\* check_eyes = await eyes_open_task
eyes_open_task ==
    /\ verdicts.check_eyes = "-"
    /\ verdicts' = [verdicts EXCEPT
                      !.check_eyes = IF check_eyes_open(mediapipe.mesh) THEN "True" ELSE "False"]
    /\ UNCHANGED landmarkOthers

\* check_full_face, mess_full_face = await full_face_task
full_face_task ==
    /\ verdicts.check_full_face = "-"
    /\ LET out == is_full_face(Shape, mediapipe.detection)
       IN  verdicts' = [verdicts EXCEPT
                          !.check_full_face = IF out[1] THEN "True" ELSE "False",
                          !.mess_full_face = out[2]]
    /\ UNCHANGED landmarkOthers

NextLandmarks == eyes_open_task \/ full_face_task

SpecLandmarks == InitLandmarks /\ [][NextLandmarks]_vars

(***************************************************************************)
(* Properties                                                              *)
(***************************************************************************)

\* C1: at most ProcessingCapacity (10) requests are inside
\* detect_and_embed_face, past the acquisition of the processing gate.
C1_ProcessingGateBound == at["pipeline"] <= ProcessingCapacity

\* the gate is full and one more request waits at it
C1_Witness == at["pipeline"] = ProcessingCapacity /\ at["acquire_processing"] > 0

\* C2: the outstanding search, insert and delete calls to the vector store
\* number at most HttpCapacity (10) together.
C2_NetworkGateBoundsAllCalls ==
    at["search_point"] + at["insert_point"] + at["delete_point"] <= HttpCapacity

\* C4: a request that waits at a full gate is never answered from there: it
\* leaves the wait only by being admitted; and the requests waiting at a
\* gate are all admitted in the end.
C4_WaitersAdmitted ==
    /\ [][/\ at["acquire_processing"]' < at["acquire_processing"]
              => at["pipeline"]' = at["pipeline"] + 1
          /\ at["acquire_http"]' < at["acquire_http"]
              => at["search_point"]' = at["search_point"] + 1]_vars
    /\ (at["acquire_processing"] > 0) ~> (at["acquire_processing"] = 0)
    /\ (at["acquire_http"] > 0) ~> (at["acquire_http"] = 0)

\* a request waits while every slot of the processing gate is taken
C4_Witness == at["acquire_processing"] > 0 /\ PROCESSING_SEMAPHORE = 0

\* C3: the slots taken from each gate are exactly those of the requests
\* inside detect_and_embed_face and inside search_face, whichever way
\* earlier requests left them; with no request in flight both gates are
\* back at full capacity.
C3_SlotsReleased ==
    /\ PROCESSING_SEMAPHORE =
          ProcessingCapacity - Cardinality({r \in Reqs : pc[r] \in PipelineLocs})
    /\ HTTP_SEMAPHORE = HttpCapacity - Cardinality({r \in Reqs : pc[r] = "await_search"})
    /\ (\A r \in Reqs : pc[r] \in {"idle", "done"}) =>
          (PROCESSING_SEMAPHORE = ProcessingCapacity /\ HTTP_SEMAPHORE = HttpCapacity)

\* a request left the pipeline by a fault raised while it held its slot,
\* and nothing is in flight
C3_Witness ==
    /\ \A r \in Reqs : pc[r] \in {"idle", "done"}
    /\ \E r \in Reqs :
          /\ pc[r] = "done"
          /\ resp[r].code = 500
          /\ resp[r].message = "Error! Please try again"
    /\ PROCESSING_SEMAPHORE = ProcessingCapacity

\* C5: a request admitted into the pipeline reaches a terminal result.
C5_AdmittedTerminates ==
    \A r \in Reqs : (pc[r] \in PipelineLocs) ~> (pc[r] = "done" /\ resp[r] # NoResponse)

\* a request that passed every check-in gate, was matched and was answered
C5_Witness ==
    \E r \in Reqs :
        /\ pc[r] = "done"
        /\ req[r].op = "recognize" /\ req[r].role = "1"
        /\ resp[r].code = 200

\* the outward outcome a response stands for
IsSuccess(x) == x.status = 1

IsUnmatched(x) == x.code = 404 /\ x.status = 0

IsRejected(x) == (x.code = 400 /\ x.status = 2) \/ (x.code = 409 /\ x.status = 0)

IsFault(x) == x.code = 500

OutcomeCount(x) ==
    (IF IsSuccess(x) THEN 1 ELSE 0) + (IF IsUnmatched(x) THEN 1 ELSE 0)
        + (IF IsRejected(x) THEN 1 ELSE 0) + (IF IsFault(x) THEN 1 ELSE 0)

\* C6: the response of a finished recognize or enroll request stands for
\* exactly one of a success with an identity, no match, a rejection and a
\* fault.
C6_ExactlyOneOutcome ==
    \A r \in Reqs :
        (pc[r] = "done" /\ req[r].op \in {"recognize", "create"}) =>
            OutcomeCount(resp[r]) = 1

\* C7: a request whose face detection returned no usable face ends as a
\* rejection (400 with status 2), never as a fault.
C7_NoFaceIsRejected ==
    \A r \in Reqs :
        (pc[r] = "done" /\ faces[r] = 0) =>
            (resp[r].code = 400 /\ resp[r].status = 2)

\* the passing hits' identity ids, and the votes of one id
PassingIds == {result[k].payload.id : k \in {j \in DOMAIN result : result[j].score >= 54}}

Votes(id) ==
    Cardinality({k \in DOMAIN result : result[k].score >= 54 /\ result[k].payload.id = id})

Answered == response.message # "none"

\* C8: when the passing vote counts are not all equal, the answer is one
\* entry whose id has the highest vote count, whose score is the highest
\* score among that id's passing hits and whose payload is that of the first
\* hit with that id; the majority example resolves to A with 0.90.
C8_MajorityRule ==
    /\ (Answered /\ \E a, b \in PassingIds : Votes(a) # Votes(b)) =>
          /\ response.message = "Point found"
          /\ Len(response.data) = 1
          /\ LET sc == response.data[1][1]
                 pl == response.data[1][2]
             IN  /\ pl.id \in PassingIds
                 /\ \A b \in PassingIds : Votes(b) <= Votes(pl.id)
                 /\ \E k \in DOMAIN result :
                       result[k].payload.id = pl.id /\ result[k].score >= 54 /\ result[k].score = sc
                 /\ \A k \in DOMAIN result :
                       (result[k].payload.id = pl.id /\ result[k].score >= 54) => result[k].score <= sc
                 /\ \E k \in DOMAIN result :
                       /\ result[k].payload = pl
                       /\ \A j \in 1..(k - 1) : result[j].payload.id # pl.id
    /\ (Answered /\ result = MajorityExample) =>
          response = [message |-> "Point found",
                      data |-> << <<90, [id |-> "A", name |-> "n1"]>> >>]

\* the majority outvotes the best-scoring hit
C8_Witness ==
    /\ Answered
    /\ \E a, b \in PassingIds : Votes(a) # Votes(b)
    /\ response.message = "Point found"
    /\ response.data[1][2].id # result[1].payload.id

\* C9: when the passing hits cover two or more ids with equal votes, the
\* answer is the hit with the highest score among all hits at or above
\* THRESHOLD_SEARCH, the first one among equal scores, and no match if there
\* is none; the tie example resolves to A with 0.60.
C9_TieRule ==
    /\ (/\ Answered
        /\ Cardinality(PassingIds) >= 2
        /\ \A a, b \in PassingIds : Votes(a) = Votes(b)) =>
          LET S == {k \in DOMAIN result : result[k].score >= THRESHOLD_SEARCH}
          IN  IF S = {} THEN response = [message |-> "Point not found", data |-> <<>>]
              ELSE \E k \in S :
                      /\ \A j \in S : result[j].score <= result[k].score
                      /\ \A j \in S : j < k => result[j].score < result[k].score
                      /\ response = [message |-> "Point found",
                                     data |-> << <<result[k].score, result[k].payload>> >>]
    /\ (Answered /\ result = TieExample) =>
          response = [message |-> "Point found",
                      data |-> << <<60, [id |-> "A", name |-> "n1"]>> >>]

\* a tie between two ids whose best hits score the same
C9_Witness ==
    /\ Answered
    /\ Len(result) >= 2
    /\ result[1].score = result[2].score
    /\ result[1].payload.id # result[2].payload.id
    /\ Cardinality(PassingIds) >= 2
    /\ \A a, b \in PassingIds : Votes(a) = Votes(b)
    /\ response.message = "Point found"

\* C10: the answer is "no match" exactly when no hit scores 0.54 or more.
C10_UnmatchedIffNonePasses ==
    Answered =>
        ((response = [message |-> "Point not found", data |-> <<>>])
            <=> (\A k \in DOMAIN result : result[k].score < 54))

\* the best hit scores exactly 0.54 and the answer is a match
C10_Witness ==
    /\ Answered
    /\ result # <<>>
    /\ result[1].score = 54
    /\ response.message = "Point found"

\* C11: an enrollment without is_update for which the store's resolver
\* finds a match, whatever id the match carries, is answered 409, sends no
\* insert_point and leaves the points of the store as they were.
C11_DuplicateRefused ==
    [][(served'.op = "create" /\ ~served'.is_update /\ served'.found # "-") =>
          /\ served'.resp.code = 409
          /\ served'.insert = "-"
          /\ collection' = collection]_vars

\* a face enrolled under one id is presented again under another id
C11_Witness ==
    /\ served.op = "create" /\ ~served.is_update
    /\ served.found # "-" /\ served.found # served.id
    /\ \E q \in collection : q.vector = served.face /\ q.payload.id = served.found
    /\ served.resp.code = 409

\* the points a collection holds for a subject id
RecordsOf(points, cname, id) ==
    {q \in points : q.collection_name = cname /\ q.payload.id = id}

\* C12: an enrollment with is_update that succeeds for a subject id with at
\* most one record leaves exactly one record for that id in its collection,
\* and the record carries the new vector.
C12_UpdateOverwrites ==
    [][(/\ served'.op = "create" /\ served'.is_update /\ served'.resp.code = 201
        /\ Cardinality(RecordsOf(collection, collection_name(served'.store_id, served'.role),
                                 served'.id)) <= 1) =>
          LET after == RecordsOf(collection', collection_name(served'.store_id, served'.role),
                                 served'.id)
          IN  /\ Cardinality(after) = 1
              /\ \A q \in after : q.vector = served'.face]_vars

\* C13: an Identify or Enroll request during which a call to the store got
\* no answer ends in a fault (500) that is neither "no match" nor a
\* success, and a failed duplicate search is not followed by an insert.
C13_StoreFailureIsFault ==
    (/\ served.op \in {"recognize", "create"}
     /\ (served.search = "down" \/ served.insert \in {"down", "lost"})) =>
        /\ IsFault(served.resp) /\ ~IsUnmatched(served.resp) /\ ~IsSuccess(served.resp)
        /\ served.search = "down" => served.insert = "-"

\* C14: an Identify or Enroll request whose embedding has not the length
\* of the store's vectors, every store call being answered, ends in a fault
\* (500), not in "no match" and not in a success.
C14_ShapeMismatchIsFault ==
    (/\ served.op \in {"recognize", "create"}
     /\ served.len # VectorSize
     /\ served.search # "down" /\ served.insert \notin {"down", "lost"}) =>
        IsFault(served.resp) /\ ~IsUnmatched(served.resp) /\ ~IsSuccess(served.resp)

\* the rejections of the alignment, eyes, distance, full-face and blur gates
EyesClosed == "Eyes are closed! Please open your eyes"

Blurry == "Face is blur! Please keep your face in focus"

SpoofDetected == "Face is not real! Please use your real face"

GateMessages ==
    FaceDirectionMessages \cup FullFaceMessages
        \cup {EyesClosed, Blurry, "Face is too close! Please move back",
              "Face is too far! Please move forward"}

\* C15: an Identify request, whether of an Employee (role '1') or of a
\* Customer (role '0'), whose pipeline hands an embedding back has passed
\* the alignment, eyes, full-face, blur and liveness checks.
C15_IdentifyRunsAllGates ==
    \A r \in Reqs :
        (req[r].op = "recognize" /\ pc[r] = "gather" /\ det[r] = "True") =>
            /\ checks[r].check_flr = "True" /\ checks[r].check_eyes = "True"
            /\ checks[r].check_full_face = "True" /\ checks[r].check_face_blur = "True"
            /\ checks[r].is_real = "True"

\* C16: an Enroll request never waits for the alignment, eyes, full-face or
\* blur check, none of these checks is ever run for it, it is never answered
\* with the rejection of one of these gates or of the distance gate, and it
\* gets to the duplicate search or the insert only with a selected face and
\* an embedding.
C16_EnrollSkipsGates ==
    \A r \in Reqs :
        req[r].op = "create" =>
            /\ pc[r] \notin {"await_face_direction", "await_eyes_open", "await_full_face",
                              "await_blur_face"}
            /\ checks[r].check_flr = "-" /\ checks[r].check_eyes = "-"
            /\ checks[r].check_full_face = "-" /\ checks[r].check_face_blur = "-"
            /\ message[r].message \notin GateMessages
            /\ resp[r].message \notin GateMessages
            /\ pc[r] \in {"acquire_http", "await_search", "await_insert"} =>
                  faces[r] >= 1 /\ det[r] = "True"

\* an Employee's enrollment has reached the insert
C16_Witness ==
    \E r \in Reqs :
        /\ req[r].op = "create" /\ req[r].role = "1"
        /\ pc[r] = "await_insert" /\ faces[r] >= 1

\* C17: when the embedding task of a check-in request reports is_real
\* False, the pipeline returns the rejection "Face is not real!" and no
\* embedding.
C17_SpoofRejected ==
    \A r \in Reqs :
        (pc[r] = "gather" /\ is_checkin(r) /\ checks[r].is_real = "False") =>
            det[r] = "False" /\ message[r] = Rejected400(SpoofDetected)

\* a check-in passed every earlier gate and its face is judged not real
C17_Witness ==
    \E r \in Reqs :
        /\ pc[r] = "gather" /\ is_checkin(r) /\ checks[r].is_real = "False"
        /\ checks[r].check_face_blur = "True"

\* C19: when the alignment check fails the request is rejected with the
\* message of the alignment check, whatever the eyes check came to; "Eyes
\* are closed!" is returned only when the alignment check passed and the
\* eyes check failed.
C19_AlignmentFirst ==
    \A r \in Reqs :
        pc[r] = "gather" =>
            /\ checks[r].check_flr = "False" =>
                  /\ det[r] = "False" /\ message[r].code = 400
                  /\ message[r].message \in FaceDirectionMessages
            /\ message[r].message = EyesClosed =>
                  checks[r].check_flr = "True" /\ checks[r].check_eyes = "False"

\* the alignment check failed and the eyes are closed as well
C19_Witness ==
    \E r \in Reqs :
        /\ pc[r] = "gather" /\ checks[r].check_flr = "False"
        /\ checks[r].check_eyes = "False"

\* C20: a verdict of the full-face or of the blur gate is returned only
\* once both tasks have come to their results; when both checks fail the
\* message is the one of the full-face check; "Face is blur!" is returned
\* only when the full-face check passed and the blur check failed.
C20_FullFaceBeforeBlur ==
    \A r \in Reqs :
        pc[r] = "gather" =>
            /\ message[r].message \in FullFaceMessages \cup {Blurry} =>
                  /\ checks[r].check_full_face \in {"True", "False"}
                  /\ checks[r].check_face_blur \in {"True", "False"}
            /\ (checks[r].check_full_face = "False" /\ checks[r].check_face_blur = "False") =>
                  /\ det[r] = "False" /\ message[r].code = 400
                  /\ message[r].message \in FullFaceMessages
            /\ message[r].message = Blurry =>
                  checks[r].check_full_face = "True" /\ checks[r].check_face_blur = "False"

\* the face is partly out of the frame and blurred as well
C20_Witness ==
    \E r \in Reqs :
        /\ pc[r] = "gather"
        /\ checks[r].check_full_face = "False" /\ checks[r].check_face_blur = "False"

\* C18: the liveness judgment changes nothing for an Enroll request: a
\* capture whose first face is reported with enough confidence has a face
\* selected whether the provider judged it real or not, and a negative
\* judgment of the embedding task does not keep the embedding back.
C18_EnrollIgnoresLiveness ==
    \A r \in Reqs :
        req[r].op = "create" =>
            /\ checks[r].confidence >= CONF_THRESHOLD => faces[r] >= 1
            /\ (pc[r] = "gather" /\ checks[r].is_real = "False") => det[r] = "True"

\* C21: a request whose pipeline has returned, its slot given back, has
\* both tasks of every fan-out it started at their results: the eyes task
\* when the alignment task failed or raised, the blur task when the
\* full-face task raised.
C21_NoBranchCancelled ==
    \A r \in Reqs :
        pc[r] = "gather" =>
            /\ checks[r].check_flr # "-" => checks[r].check_eyes \in TaskResults
            /\ checks[r].check_full_face # "-" => checks[r].check_face_blur \in TaskResults

\* the alignment check failed and the eyes task, never awaited, came to True
C21_Witness ==
    \E r \in Reqs :
        /\ pc[r] = "gather" /\ checks[r].check_flr = "False"
        /\ checks[r].check_eyes = "True"
        /\ message[r].message \in FaceDirectionMessages

\* C22: the distance gate answers "too close" exactly when the selected
\* face is nearer than 20 in check-in mode and "too far" exactly when it is
\* farther than 70 in check-in mode; at 20 and at 70 the face passes, and
\* without check-in every selected face passes.
C22_DistanceGate ==
    (selection.done /\ selection.idx_large # 0) =>
        /\ selection.verdict = "Face is too close! Please move back"
              <=> (selection.is_checkin /\ selection.distance < 20)
        /\ selection.verdict = "Face is too far! Please move forward"
              <=> (selection.is_checkin /\ selection.distance > 70)
        /\ selection.verdict = "pass"
              <=> (~selection.is_checkin \/ (20 <= selection.distance /\ selection.distance <= 70))

\* a check-in whose selected face stands at exactly 20 passes
C22_Witness ==
    /\ selection.done /\ selection.is_checkin
    /\ selection.distance = 20 /\ selection.verdict = "pass"

\* C23: the selected face is one of minimum distance among the faces
\* detect_face kept, the first of them in the order the provider reported;
\* of faces at 55, 30 and 90 the one at 30 is selected.
C23_NearestFirst ==
    (selection.done /\ selection.idx_large # 0) =>
        LET distances == detect_face(face_detected)
            k == selection.idx_large
        IN  /\ k \in DOMAIN distances
            /\ selection.distance = distances[k]
            /\ \A j \in DOMAIN distances : distances[k] <= distances[j]
            /\ \A j \in 1..(k - 1) : distances[j] > distances[k]
            /\ distances = <<55, 30, 90>> => k = 2

\* faces at 55, 30 and 90 were reported and the second is selected
C23_Witness ==
    /\ selection.done
    /\ detect_face(face_detected) = <<55, 30, 90>>
    /\ selection.idx_large = 2 /\ selection.distance = 30

\* C24: the id an Identify for a store and a subject kind returns is the
\* payload id of a point that was enrolled with that store_id into the
\* collection of that store and kind.
C24_ResolveWithinScope ==
    (served.op = "recognize" /\ served.resp.code = 200) =>
        \E q \in collection :
            /\ q.payload.id = served.resp.id
            /\ q.payload.store_id = served.store_id
            /\ q.collection_name = collection_name(served.store_id, served.role)

\* the face is enrolled under another id in another scope as well, and the
\* Identify returns the id of its own scope
C24_Witness ==
    /\ served.op = "recognize" /\ served.resp.code = 200
    /\ \E q \in collection :
          /\ q.vector = served.face
          /\ q.payload.id # served.resp.id
          /\ q.collection_name # collection_name(served.store_id, served.role)

QualityFailure(r) ==
    \/ faces[r] = 0
    \/ checks[r].check_flr = "False"
    \/ checks[r].check_flr = "True" /\ checks[r].check_eyes = "False"
    \/ checks[r].check_full_face = "False"
    \/ checks[r].check_full_face = "True" /\ checks[r].check_face_blur = "False"
    \/ is_checkin(r) /\ checks[r].is_real = "False"

\* C26: detect_and_embed_face always returns: True with the embedding, or
\* False with a 400 or 500 response that carries a message; and a capture
\* that failed a quality check comes back with a 400 rejection, not a 500.
C26_PipelineAlwaysReturns ==
    \A r \in Reqs :
        pc[r] = "gather" =>
            /\ det[r] \in {"True", "False"}
            /\ det[r] = "True" => message[r] = NoResponse
            /\ det[r] = "False" =>
                  message[r].code \in {400, 500} /\ message[r].message # NoField
            /\ QualityFailure(r) => det[r] = "False" /\ message[r].code = 400

\* the steps that compute: decoding, the landmark and quality checks, face
\* detection, the embedding
CpuSteps ==
    {"decode", "await_face_direction", "await_eyes_open", "detect_face", "await_full_face",
     "await_blur_face", "await_emb"}

\* C27: while a request is in a step that computes, the event loop thread
\* is not running that request: the step is on a worker and the request is
\* suspended, so that a request that is ready to start can start.
C27_CpuStepsOffLoop ==
    \A t \in Tasks :
        stage[t].loc \in CpuSteps =>
            /\ loop_thread # t
            /\ \A q \in Tasks \ {t} : stage[q].loc = "idle" => ENABLED enter(q)

\* the place of an await point in the order of the stages
StageRank(loc) ==
    CASE loc = "acquire_processing" -> 0
      [] loc = "await_face_direction" -> 1
      [] loc = "await_eyes_open" -> 2
      [] loc = "await_full_face" -> 3
      [] loc = "await_blur_face" -> 4
      [] loc = "await_emb" -> 5
      [] loc = "gather" -> 6

\* C28: a request moves through the stages in their order only; the
\* embedding task is started, with is_checkin, from the blur check with the
\* alignment, eyes, full-face and blur checks passed, and without it from
\* the detection; a pipeline that returned without an embedding starts no
\* further stage.
C28_StagesInOrder ==
    [][\A r \in Reqs :
        /\ (pc[r] \in PipelineLocs \cup {"acquire_processing"} /\ pc'[r] # pc[r]) =>
              /\ pc'[r] \in PipelineLocs \cup {"gather"}
              /\ StageRank(pc'[r]) > StageRank(pc[r])
        /\ (pc'[r] = "await_emb" /\ pc[r] # "await_emb") =>
              IF is_checkin(r)
              THEN /\ pc[r] = "await_blur_face"
                   /\ checks'[r].check_flr = "True" /\ checks'[r].check_eyes = "True"
                   /\ checks'[r].check_full_face = "True"
                   /\ checks'[r].check_face_blur = "True"
              ELSE pc[r] = "acquire_processing"
        /\ pc[r] = "gather" => pc'[r] \notin PipelineLocs
        /\ (det'[r] = "False" /\ det[r] # "False") => pc'[r] = "gather"]_vars

\* a check-in has passed every gate before the embedding and waits for it
C28_Witness ==
    \E r \in Reqs :
        /\ pc[r] = "await_emb" /\ is_checkin(r)
        /\ checks[r].check_flr = "True" /\ checks[r].check_face_blur = "True"

\* C29: whatever the interleaving of the searches and inserts of
\* concurrent enrollments without is_update, the collection holds at most
\* one record of a face.
C29_NoDoubleInsert ==
    \A f \in Faces :
        Cardinality({q \in collection :
                        q.collection_name = RaceCollection /\ q.vector = f}) <= 1

\* C30: a batch operation has at most its limit of items in flight, and
\* it answers, for an empty list and for any other, with the 200 response
\* once every item of the list was processed.
C30_BatchCompletes ==
    /\ batch.op # NoField => Cardinality(InFlight) <= BatchLimit(batch.op)
    /\ batch.resp # NoBatchAnswer =>
          /\ batch.resp.code = 200
          /\ \A i \in DOMAIN batch.items : batch.items[i] = "done"

\* C31: when ensure_collections_exist has returned to a request and both
\* collections of the store exist, it has returned True and the request is
\* not answered with the collection error, however the first uses of the
\* store interleave.
C31_EnsureTrueWhenBothExist ==
    \A e \in FirstUsers :
        (/\ ensure[e].loc = "returned"
         /\ {customer_collection(ensure[e].store_id),
             employee_collection(ensure[e].store_id)} \subseteq collections) =>
            ensure[e].collection_exists = "True" /\ ensure[e].code # 500

\* C32: without check-in (an Enroll, an Identify of a Customer), when the
\* capture decodes and face detection raises, the pipeline hands back
\* success without an embedding and the request is not answered with the
\* detection fault.
C32_DetectFaultIsSuccess ==
    \A r \in Reqs :
        (/\ req[r].op \in {"recognize", "create"} /\ ~is_checkin(r)
         /\ req[r].img_base64 = "image") =>
            /\ (pc[r] = "gather" /\ faces[r] = -1) =>
                  det[r] = "True" /\ message[r] = NoResponse
            /\ resp[r] # ErrorDetecting

\* C33: delete_face answers 404 when the Employees collection of the store
\* holds no record with the id given, and answers 200 only when a record
\* with that id was there and is deleted.
C33_DeleteMissingIs404 ==
    [][served'.op = "delete" =>
          LET cname == collection_name(served'.store_id, "1")
          IN  /\ RecordsOf(collection, cname, served'.id) = {} => served'.resp.code = 404
              /\ served'.resp.code = 200 =>
                    /\ RecordsOf(collection, cname, served'.id) # {}
                    /\ RecordsOf(collection', cname, served'.id) = {}]_vars

\* C34: the eyes-open check passes only if a face was found and each of
\* its two eyes has an aspect ratio at or above the threshold; with one eye
\* below it the check fails, however open the other eye is.
C34_EachEyeOpen ==
    verdicts.check_eyes = "True" =>
        /\ mediapipe.mesh.found
        /\ mediapipe.mesh.left_ear >= EYE_AR_THRESH
        /\ mediapipe.mesh.right_ear >= EYE_AR_THRESH

\* a keypoint lies inside the frame on every side
Inside(k, image) == 0 <= k.x /\ k.x <= image.width /\ 0 <= k.y /\ k.y <= image.height

\* C35: the full-face check passes only if a face was found and its mouth,
\* eye and nose keypoints all lie inside the frame on every side; with a
\* keypoint beyond the left, right, top or bottom edge it fails with the
\* message of a partial face.
C35_KeypointsInsideFrame ==
    verdicts.check_full_face # "-" =>
        LET d == mediapipe.detection
            inside == /\ d.found
                      /\ \A k \in {d.mouth, d.eye_left, d.eye_right, d.noise} : Inside(k, Shape)
        IN  /\ verdicts.check_full_face = "True" => inside
            /\ (d.found /\ ~inside) =>
                  /\ verdicts.check_full_face = "False"
                  /\ verdicts.mess_full_face \in FullFaceMessages

\* C36: every slot taken from the processing gate is held by a request
\* inside detect_and_embed_face and every slot taken from the network gate
\* by a request inside search_face: a request that waits for or holds a
\* network slot holds no processing slot, whatever the interleaving.
C36_NoSlotHeldAcrossGates ==
    /\ PROCESSING_SEMAPHORE = ProcessingCapacity - at["pipeline"]
    /\ HTTP_SEMAPHORE = HttpCapacity - at["search_point"]

\* the network gate is full and a request waits at it, while no slot of
\* the processing gate is taken
C36_Witness ==
    /\ HTTP_SEMAPHORE = 0 /\ at["acquire_http"] > 0
    /\ at["search_point"] = HttpCapacity
    /\ PROCESSING_SEMAPHORE = ProcessingCapacity

\* C37: a match is answered with exactly one (score, payload) entry, its
\* score is at or above THRESHOLD_PASS, and its id is the id of a hit that
\* scored at or above THRESHOLD_PASS.
C37_MatchIsOnePassingEntry ==
    (Answered /\ response.message = "Point found") =>
        /\ Len(response.data) = 1
        /\ response.data[1][1] >= THRESHOLD_PASS
        /\ \E k \in DOMAIN result :
              /\ result[k].score >= THRESHOLD_PASS
              /\ result[k].payload.id = response.data[1][2].id

\* the id answered has a hit below THRESHOLD_PASS as well
C37_Witness ==
    /\ Answered /\ response.message = "Point found"
    /\ \E k \in DOMAIN result :
          /\ result[k].payload.id = response.data[1][2].id
          /\ result[k].score < THRESHOLD_PASS

\* the ids with the highest vote count, and the rank of the first passing
\* hit of an id
TopIds == {a \in PassingIds : \A b \in PassingIds : Votes(b) <= Votes(a)}

FirstPassing(id) ==
    CHOOSE k \in DOMAIN result :
        /\ result[k].score >= 54 /\ result[k].payload.id = id
        /\ \A j \in 1..(k - 1) : ~(result[j].score >= 54 /\ result[j].payload.id = id)

\* C38: when the vote counts of the passing ids differ and two or more ids
\* share the highest count, the answer is the one of them whose first
\* passing hit comes first in the provider's order, with the highest score
\* of that id; with votes A=2, B=2, C=1 and A's hit before B's it is A.
C38_TopTieFirstInOrder ==
    (/\ Answered
     /\ \E a, b \in PassingIds : Votes(a) # Votes(b)
     /\ Cardinality(TopIds) >= 2) =>
        /\ response.message = "Point found" /\ Len(response.data) = 1
        /\ LET id == response.data[1][2].id
           IN  /\ id \in TopIds
               /\ \A other \in TopIds : FirstPassing(id) <= FirstPassing(other)
               /\ \E k \in DOMAIN result : result[k].payload.id = id /\ result[k].score = response.data[1][1]
               /\ \A k \in DOMAIN result : result[k].payload.id = id => result[k].score <= response.data[1][1]

\* votes 2, 2 and 1, the best hit being the one of the id with one vote
C38_Witness ==
    /\ Answered /\ Len(result) = TopK
    /\ \A a \in TopIds : Votes(a) = 2
    /\ Cardinality(TopIds) = 2 /\ Cardinality(PassingIds) = 3
    /\ result[1].payload.id \notin TopIds
    /\ response.message = "Point found"
    /\ response.data[1][2].id = result[2].payload.id

\* C39: detect_face returns a face the provider reported exactly when that
\* face and every face reported before it has a confidence of at least
\* CONF_THRESHOLD and is judged real; the first face that fails cuts off
\* all later ones; boxes, scores and distances have the same length and
\* each holds, at every place, what belongs to the face at that place.
C39_CutOffAtFirstFailure ==
    selection.done =>
        LET n == Len(selection.distances)
        IN  /\ Len(selection.boxes) = n /\ Len(selection.scores) = n
            /\ n <= Len(face_detected)
            /\ \A k \in DOMAIN face_detected :
                  (k <= n) <=>
                      \A j \in 1..k :
                          face_detected[j].score >= CONF_THRESHOLD /\ face_detected[j].is_real
            /\ \A k \in 1..n :
                  /\ selection.boxes[k] = k
                  /\ selection.scores[k] = face_detected[k].score
                  /\ selection.distances[k] = face_detected[k].dist

\* the second of three faces is judged not real and the third, which
\* would pass, is cut off with it
C39_Witness ==
    /\ selection.done /\ Len(face_detected) = 3
    /\ Len(selection.distances) = 1
    /\ face_detected[2].score >= CONF_THRESHOLD /\ ~face_detected[2].is_real
    /\ face_detected[3].score >= CONF_THRESHOLD /\ face_detected[3].is_real

\* no record of the id is left in the Employees collection of the store
Gone(points, store_id, id) == RecordsOf(points, collection_name(store_id, "1"), id) = {}

====
